---- MODULE Spec2Model ----
(***************************************************************************)
(* A model of the circuit dataflow runtime: the Graph data model           *)
(* (circuit-core/src/graph.rs) and the execution Engine                    *)
(* (circuit-core/src/engine.rs) with the blocks the scenarios use.         *)
(*                                                                         *)
(* Spec       : a caller builds one Graph through add_node, remove_node,   *)
(*              add_connection and queries topological_sort.               *)
(* SpecExec   : Engine::execute applied once to a registry and a Graph    *)
(*              value the caller built directly (public fields).           *)
(* SpecEngine : a caller registers blocks, loads Graph values and executes *)
(*              them by id.                                                *)
(* SpecChain  : Engine::execute applied to the benchmark's linear chains.  *)
(* SpecEngines: a caller registers blocks and loads graphs on two Engines. *)
(* SpecValue  : the accessors and the serialised form of Value.            *)
(* SpecSort   : topological_sort on Graph values built directly.           *)
(* SpecLoaded : one Engine loading and executing a deserialized Graph.     *)
(* SpecValidate: loading and executing with a block that has a validate.   *)
(* SpecFfi    : threads calling circuit-ffi's exported functions, one      *)
(*              statement at a time, over the two global tables.           *)
(*                                                                         *)
(* A HashMap's iteration order is not fixed by the program (RandomState),  *)
(* so every loop over a HashMap takes its order as an input chosen by \E.  *)
(***************************************************************************)
EXTENDS Integers, Sequences, FiniteSets, TLC

VARIABLES graph, ret, blocks, graphs, eret, prev, engines, ffi

vars == <<graph, ret, blocks, graphs, eret, prev, engines, ffi>>

(***************************************************************************)
(* Bounds and input alphabets                                              *)
(***************************************************************************)
\* Longest connection list the caller of Spec builds.
MaxConns == 2

\* Longest connection list of a Graph handed to Engine::execute in SpecExec.
MaxGraphConns == 2

\* Most add nodes in a linear chain of SpecChain.
MaxChain == 2

\* Most items of an Array, an Object or a Bytes value in SpecValue.
MaxItems == 1

\* Most circuit_engine_create calls the threads of SpecFfi make.
MaxCreates == 2

NodeIds == {"n1", "n2", "n3"}

\* HashMap<K, V> as a function; the map with no key.
EmptyMap == [k \in {} |-> k]

Put(map, key, value) ==
    [k \in (DOMAIN map) \cup {key} |-> IF k = key THEN value ELSE map[k]]

Remove(map, key) == [k \in (DOMAIN map) \ {key} |-> map[k]]

\* All orders in which a HashMap with key set S may be iterated.
Orders(S) ==
    {s \in [1..Cardinality(S) -> S] : \A i, j \in DOMAIN s : i # j => s[i] # s[j]}

(***************************************************************************)
(* value.rs: Value, a tagged union.  Float payloads are exact rationals    *)
(* <<numerator, denominator>> in lowest terms with a positive denominator. *)
(***************************************************************************)
RECURSIVE Gcd(_, _)
Gcd(a, b) == IF b = 0 THEN a ELSE Gcd(b, a % b)

Abs(x) == IF x < 0 THEN -x ELSE x

\* the f64 with value n/d (d # 0)
Ratio(n, d) ==
    LET g == Gcd(Abs(n), Abs(d))
        s == IF d < 0 THEN -1 ELSE 1
    IN  <<(s * n) \div g, (s * d) \div g>>

\* Value::Null, Value::Int(i), Value::Float(n as f64), Value::Float(q); the
\* payload's field is named after the variant
VNull == [type |-> "Null"]
VInt(i) == [type |-> "Int", int |-> i]
VFloat(n) == [type |-> "Float", float |-> Ratio(n, 1)]
VFloatOf(q) == [type |-> "Float", float |-> q]

None == [some |-> FALSE]
Some(x) == [some |-> TRUE, value |-> x]

as_float(v) ==
    IF v.type = "Float" THEN Some(v.float)
    ELSE IF v.type = "Int" THEN Some(Ratio(v.int, 1))
    ELSE None

\* Value::Bool, Value::String, Value::Array, Value::Object, Value::Bytes
VBool(b) == [type |-> "Bool", bool |-> b]
VString(s) == [type |-> "String", string |-> s]
VArray(arr) == [type |-> "Array", array |-> arr]
VObject(obj) == [type |-> "Object", object |-> obj]
VBytes(bytes) == [type |-> "Bytes", bytes |-> bytes]

\* f64 payloads that are no number or not finite: 0/0, 1/0, -1/0
NaN == <<0, 0>>
Infinity == <<1, 0>>
NegInfinity == <<-1, 0>>

is_finite(q) == q[2] # 0

\* f64's ==: NaN equals nothing, itself included
F64Eq(a, b) == a # NaN /\ b # NaN /\ a = b

is_null(v) == v.type = "Null"

as_bool(v) == IF v.type = "Bool" THEN Some(v.bool) ELSE None

\* as_int narrowing a Float that holds a whole number
as_int_narrowing(v) ==
    IF v.type = "Int" THEN Some(v.int)
    ELSE IF v.type = "Float" /\ v.float[2] = 1 THEN Some(v.float[1])
    ELSE None

as_int(v) == IF v.type = "Int" THEN Some(v.int) ELSE None

as_str(v) == IF v.type = "String" THEN Some(v.string) ELSE None

as_array(v) == IF v.type = "Array" THEN Some(v.array) ELSE None

as_object(v) == IF v.type = "Object" THEN Some(v.object) ELSE None

RECURSIVE ValueEq(_, _)
\* #[derive(PartialEq)] on Value
ValueEq(a, b) ==
    /\ a.type = b.type
    /\ CASE a.type = "Null" -> TRUE
         [] a.type = "Bool" -> a.bool = b.bool
         [] a.type = "Int" -> a.int = b.int
         [] a.type = "Float" -> F64Eq(a.float, b.float)
         [] a.type = "String" -> a.string = b.string
         [] a.type = "Array" ->
              /\ Len(a.array) = Len(b.array)
              /\ \A i \in DOMAIN a.array : ValueEq(a.array[i], b.array[i])
         [] a.type = "Object" ->
              /\ DOMAIN a.object = DOMAIN b.object
              /\ \A k \in DOMAIN a.object : ValueEq(a.object[k], b.object[k])
         [] a.type = "Bytes" -> a.bytes = b.bytes

(***************************************************************************)
(* value.rs: #[derive(Serialize, Deserialize)] with                        *)
(* #[serde(tag = "type", content = "value")], through serde_json.  A JSON  *)
(* text is kept as the tree it denotes; a number keeps whether it is       *)
(* written as an integer or with a fraction.                               *)
(***************************************************************************)
JNull == [json |-> "null"]
JBool(b) == [json |-> "bool", bool |-> b]
JInteger(i) == [json |-> "integer", integer |-> i]
JFraction(q) == [json |-> "fraction", fraction |-> q]
JString(s) == [json |-> "string", string |-> s]
JArray(items) == [json |-> "array", items |-> items]
JObject(members) == [json |-> "object", members |-> members]

\* serde_json writing an f64: a number when finite, null otherwise
SerializeF64(q) == IF is_finite(q) THEN JFraction(q) ELSE JNull

RECURSIVE Serialize(_)
\* Serialize for Value: {"type": <variant>, "value": <payload>}; the unit
\* variant Null has no "value"
Serialize(v) ==
    IF v.type = "Null" THEN JObject([type |-> JString("Null")])
    ELSE JObject(
           [type |-> JString(v.type),
            value |->
              CASE v.type = "Bool" -> JBool(v.bool)
                [] v.type = "Int" -> JInteger(v.int)
                [] v.type = "Float" -> SerializeF64(v.float)
                [] v.type = "String" -> JString(v.string)
                [] v.type = "Array" ->
                     JArray([i \in DOMAIN v.array |-> Serialize(v.array[i])])
                [] v.type = "Object" ->
                     JObject([k \in DOMAIN v.object |-> Serialize(v.object[k])])
                [] v.type = "Bytes" ->
                     JArray([i \in DOMAIN v.bytes |-> JInteger(v.bytes[i])])])

Parsed(v) == [ok |-> TRUE, value |-> v]
ParseError(text) == [ok |-> FALSE, error |-> text]

Variants == {"Null", "Bool", "Int", "Float", "String", "Array", "Object", "Bytes"}

RECURSIVE Deserialize(_)
\* Deserialize for Value: the variant named by "type" read from "value"
Deserialize(j) ==
    IF j.json # "object" THEN ParseError("invalid type, expected a map")
    ELSE IF "type" \notin DOMAIN j.members THEN ParseError("missing field type")
    ELSE IF j.members["type"].json # "string" THEN ParseError("invalid type, expected a variant")
    ELSE IF j.members["type"].string \notin Variants THEN ParseError("unknown variant")
    ELSE LET tag == j.members["type"].string IN
    IF tag = "Null" THEN Parsed(VNull)
    ELSE IF "value" \notin DOMAIN j.members THEN ParseError("missing field value")
    ELSE LET content == j.members["value"] IN
    CASE tag = "Bool" ->
           IF content.json = "bool" THEN Parsed(VBool(content.bool))
           ELSE ParseError("invalid type, expected a boolean")
      [] tag = "Int" ->
           IF content.json = "integer" THEN Parsed(VInt(content.integer))
           ELSE ParseError("invalid type, expected i64")
      [] tag = "Float" ->
           IF content.json = "fraction" THEN Parsed(VFloatOf(content.fraction))
           ELSE IF content.json = "integer" THEN Parsed(VFloatOf(Ratio(content.integer, 1)))
           ELSE ParseError("invalid type, expected f64")
      [] tag = "String" ->
           IF content.json = "string" THEN Parsed(VString(content.string))
           ELSE ParseError("invalid type, expected a string")
      [] tag = "Array" ->
           IF content.json # "array" THEN ParseError("invalid type, expected a sequence")
           ELSE LET items == [i \in DOMAIN content.items |-> Deserialize(content.items[i])] IN
                IF \E i \in DOMAIN items : ~ items[i].ok
                THEN items[CHOOSE i \in DOMAIN items :
                             ~ items[i].ok /\ \A k \in 1..(i - 1) : items[k].ok]
                ELSE Parsed(VArray([i \in DOMAIN items |-> items[i].value]))
      [] tag = "Object" ->
           IF content.json # "object" THEN ParseError("invalid type, expected a map")
           ELSE LET members == [k \in DOMAIN content.members |->
                                  Deserialize(content.members[k])] IN
                IF \E k \in DOMAIN members : ~ members[k].ok
                THEN ParseError("invalid member")
                ELSE Parsed(VObject([k \in DOMAIN members |-> members[k].value]))
      [] tag = "Bytes" ->
           IF content.json # "array" THEN ParseError("invalid type, expected a sequence")
           ELSE IF \E i \in DOMAIN content.items :
                     \/ content.items[i].json # "integer"
                     \/ content.items[i].integer \notin 0..255
           THEN ParseError("invalid value, expected u8")
           ELSE Parsed(VBytes([i \in DOMAIN content.items |-> content.items[i].integer]))

\* serde_json::from_str(&serde_json::to_string(&v).unwrap())
round_trip(v) == Deserialize(Serialize(v))

(***************************************************************************)
(* error.rs: CircuitError.  kind is the enum variant, msg its payload as   *)
(* the pieces the format! call joins.                                      *)
(***************************************************************************)
Ok == [ok |-> TRUE]
Err(kind, msg) == [ok |-> FALSE, kind |-> kind, msg |-> msg]

\* The prefix thiserror's #[error(...)] puts before the payload.
DisplayPrefix(kind) ==
    CASE kind = "BlockExecution" -> "Block execution error: "
      [] kind = "Graph" -> "Graph error: "
      [] kind = "NodeNotFound" -> "Node not found: "
      [] kind = "InvalidConnection" -> "Invalid connection: "
      [] kind = "CycleDetected" -> "Cycle detected in graph"
      [] kind = "InvalidInput" -> "Invalid input: "

\* impl Display for CircuitError: the text of `{}` applied to an error.
Display(e) == <<DisplayPrefix(e.kind)>> \o e.msg

(***************************************************************************)
(* graph.rs: Node, Connection, Graph                                       *)
(***************************************************************************)
Node(id, block_type, config) ==
    [id |-> id, block_type |-> block_type, config |-> config]

Connection(from_node, from_port, to_node, to_port) ==
    [from_node |-> from_node, from_port |-> from_port,
     to_node |-> to_node, to_port |-> to_port]

\* Graph::new
NewGraph(id) == [id |-> id, nodes |-> EmptyMap, connections |-> <<>>]

\* add_node inserting over a node that is already there
add_node_overwrite(g, node) ==
    [graph |-> [g EXCEPT !.nodes = Put(g.nodes, node.id, node)],
     result |-> IF node.id \in DOMAIN g.nodes
                THEN Err("Graph", <<"Node with id '", node.id, "' already exists">>)
                ELSE Ok]

\* Graph::add_node
add_node(g, node) ==
    IF node.id \in DOMAIN g.nodes
    THEN [graph |-> g,
          result |-> Err("Graph", <<"Node with id '", node.id, "' already exists">>)]
    ELSE [graph |-> [g EXCEPT !.nodes = Put(g.nodes, node.id, node)],
          result |-> Ok]

\* the retain that only looks at a connection's source
RetainNotFrom(conns, node_id) ==
    SelectSeq(conns, LAMBDA conn : conn.from_node # node_id)

\* Vec::retain with remove_node's closure
RetainNotInvolving(conns, node_id) ==
    SelectSeq(conns, LAMBDA conn : conn.from_node # node_id /\ conn.to_node # node_id)

\* remove_node without the cascade over the connections
remove_node_no_cascade(g, node_id) ==
    IF node_id \notin DOMAIN g.nodes
    THEN [graph |-> g, result |-> Err("NodeNotFound", <<node_id>>)]
    ELSE [graph |-> [g EXCEPT !.nodes = Remove(g.nodes, node_id)], result |-> Ok]

\* Graph::remove_node
remove_node(g, node_id) ==
    IF node_id \notin DOMAIN g.nodes
    THEN [graph |-> g, result |-> Err("NodeNotFound", <<node_id>>)]
    ELSE [graph |-> [g EXCEPT !.connections = RetainNotInvolving(g.connections, node_id),
                              !.nodes = Remove(g.nodes, node_id)],
          result |-> Ok]

\* The adjacency list both would_create_cycle and topological_sort build:
\* from_node -> the to_node of each of its connections, in list order.
RECURSIVE Adjacency(_)
Adjacency(conns) ==
    IF conns = <<>> THEN EmptyMap
    ELSE LET n == Len(conns)
             conn == conns[n]
             rest == Adjacency(SubSeq(conns, 1, n - 1))
             old == IF conn.from_node \in DOMAIN rest THEN rest[conn.from_node] ELSE <<>>
         IN  Put(rest, conn.from_node, Append(old, conn.to_node))

RECURSIVE has_cycle(_, _, _, _), has_cycle_neighbors(_, _, _, _, _)
\* has_cycle leaving the node on the recursion stack when it returns
has_cycle_keep_stack(node, adjacency, visited, rec_stack) ==
    LET v1 == visited \cup {node}
        r1 == rec_stack \cup {node}
    IN  IF node \in DOMAIN adjacency
        THEN has_cycle_neighbors(adjacency[node], 1, adjacency, v1, r1)
        ELSE [found |-> FALSE, visited |-> v1, rec_stack |-> r1]

\* fn has_cycle inside would_create_cycle; visited and rec_stack are the
\* &mut sets, returned as they are left.
has_cycle(node, adjacency, visited, rec_stack) ==
    LET v1 == visited \cup {node}
        r1 == rec_stack \cup {node}
        res == IF node \in DOMAIN adjacency
               THEN has_cycle_neighbors(adjacency[node], 1, adjacency, v1, r1)
               ELSE [found |-> FALSE, visited |-> v1, rec_stack |-> r1]
    IN  IF res.found THEN res
        ELSE [found |-> FALSE, visited |-> res.visited,
              rec_stack |-> res.rec_stack \ {node}]

\* the `for &neighbor in neighbors` loop of has_cycle, from index i
has_cycle_neighbors(neighbors, i, adjacency, visited, rec_stack) ==
    IF i > Len(neighbors)
    THEN [found |-> FALSE, visited |-> visited, rec_stack |-> rec_stack]
    ELSE LET neighbor == neighbors[i] IN
         IF neighbor \notin visited
         THEN LET r == has_cycle(neighbor, adjacency, visited, rec_stack) IN
              IF r.found THEN r
              ELSE has_cycle_neighbors(neighbors, i + 1, adjacency, r.visited, r.rec_stack)
         ELSE IF neighbor \in rec_stack
         THEN [found |-> TRUE, visited |-> visited, rec_stack |-> rec_stack]
         ELSE has_cycle_neighbors(neighbors, i + 1, adjacency, visited, rec_stack)

RECURSIVE CycleScan(_, _, _, _, _)
\* the `for node_id in self.nodes.keys()` loop of would_create_cycle
CycleScan(keys, i, adjacency, visited, rec_stack) ==
    IF i > Len(keys) THEN FALSE
    ELSE IF keys[i] \in visited
    THEN CycleScan(keys, i + 1, adjacency, visited, rec_stack)
    ELSE LET r == has_cycle(keys[i], adjacency, visited, rec_stack) IN
         IF r.found THEN TRUE
         ELSE CycleScan(keys, i + 1, adjacency, r.visited, r.rec_stack)

\* would_create_cycle that forgets to add the candidate to the adjacency list
would_create_cycle_without_candidate(g, new_connection, keys) ==
    CycleScan(keys, 1, Adjacency(g.connections), {}, {})

\* Graph::would_create_cycle; keys is the order self.nodes.keys() yields
would_create_cycle(g, new_connection, keys) ==
    CycleScan(keys, 1, Adjacency(Append(g.connections, new_connection)), {}, {})

\* add_connection that appends before it checks for a cycle
add_connection_push_first(g, connection, keys) ==
    IF connection.from_node \notin DOMAIN g.nodes
    THEN [graph |-> g, result |-> Err("NodeNotFound", <<connection.from_node>>)]
    ELSE IF connection.to_node \notin DOMAIN g.nodes
    THEN [graph |-> g, result |-> Err("NodeNotFound", <<connection.to_node>>)]
    ELSE LET pushed == [g EXCEPT !.connections = Append(g.connections, connection)] IN
         IF CycleScan(keys, 1, Adjacency(pushed.connections), {}, {})
         THEN [graph |-> pushed, result |-> Err("CycleDetected", <<>>)]
         ELSE [graph |-> pushed, result |-> Ok]

\* add_connection that looks up the source node only
add_connection_unchecked_target(g, connection, keys) ==
    IF connection.from_node \notin DOMAIN g.nodes
    THEN [graph |-> g, result |-> Err("NodeNotFound", <<connection.from_node>>)]
    ELSE IF CycleScan(keys, 1, Adjacency(Append(g.connections, connection)), {}, {})
    THEN [graph |-> g, result |-> Err("CycleDetected", <<>>)]
    ELSE [graph |-> [g EXCEPT !.connections = Append(g.connections, connection)],
          result |-> Ok]

\* Graph::add_connection
add_connection(g, connection, keys) ==
    IF connection.from_node \notin DOMAIN g.nodes
    THEN [graph |-> g, result |-> Err("NodeNotFound", <<connection.from_node>>)]
    ELSE IF connection.to_node \notin DOMAIN g.nodes
    THEN [graph |-> g, result |-> Err("NodeNotFound", <<connection.to_node>>)]
    ELSE IF would_create_cycle(g, connection, keys)
    THEN [graph |-> g, result |-> Err("CycleDetected", <<>>)]
    ELSE [graph |-> [g EXCEPT !.connections = Append(g.connections, connection)],
          result |-> Ok]

\* in_degree after the two initialisation loops of topological_sort
InDegree(g) ==
    [n \in DOMAIN g.nodes |->
        Cardinality({i \in DOMAIN g.connections : g.connections[i].to_node = n})]

RECURSIVE KahnNeighborsEager(_, _, _, _)
\* the neighbor loop enqueuing a successor at every decrement
KahnNeighborsEager(neighbors, i, in_degree, queue) ==
    IF i > Len(neighbors) THEN [in_degree |-> in_degree, queue |-> queue]
    ELSE LET neighbor == neighbors[i]
             degree == in_degree[neighbor] - 1
         IN  KahnNeighborsEager(neighbors, i + 1,
                                [in_degree EXCEPT ![neighbor] = degree],
                                Append(queue, neighbor))

RECURSIVE KahnNeighbors(_, _, _, _)
\* the `for &neighbor in neighbors` loop of topological_sort, from index i
KahnNeighbors(neighbors, i, in_degree, queue) ==
    IF i > Len(neighbors) THEN [in_degree |-> in_degree, queue |-> queue]
    ELSE LET neighbor == neighbors[i]
             degree == in_degree[neighbor] - 1
         IN  KahnNeighbors(neighbors, i + 1,
                           [in_degree EXCEPT ![neighbor] = degree],
                           IF degree = 0 THEN Append(queue, neighbor) ELSE queue)

RECURSIVE KahnLoop(_, _, _, _)
\* the `while let Some(node) = queue.pop_front()` loop of topological_sort
KahnLoop(queue, result, in_degree, adjacency) ==
    IF queue = <<>> THEN result
    ELSE LET node == Head(queue)
             s == IF node \in DOMAIN adjacency
                  THEN KahnNeighbors(adjacency[node], 1, in_degree, Tail(queue))
                  ELSE [in_degree |-> in_degree, queue |-> Tail(queue)]
         IN  KahnLoop(s.queue, Append(result, node), s.in_degree, adjacency)

\* topological_sort taking an empty result for an unfinished sort
topological_sort_nonempty(g, iter) ==
    IF \E i \in DOMAIN g.connections : g.connections[i].to_node \notin DOMAIN g.nodes
    THEN [ok |-> FALSE, kind |-> "panic", msg |-> <<>>]
    ELSE LET in_degree == InDegree(g)
             queue == SelectSeq(iter, LAMBDA n : in_degree[n] = 0)
             result == KahnLoop(queue, <<>>, in_degree, Adjacency(g.connections))
         IN  IF result = <<>> \/ Len(result) # Cardinality(DOMAIN g.nodes)
             THEN Err("CycleDetected", <<>>)
             ELSE [ok |-> TRUE, order |-> result]

\* topological_sort returning whatever the queue produced
topological_sort_unchecked_length(g, iter) ==
    IF \E i \in DOMAIN g.connections : g.connections[i].to_node \notin DOMAIN g.nodes
    THEN [ok |-> FALSE, kind |-> "panic", msg |-> <<>>]
    ELSE LET in_degree == InDegree(g)
             queue == SelectSeq(iter, LAMBDA n : in_degree[n] = 0)
             result == KahnLoop(queue, <<>>, in_degree, Adjacency(g.connections))
         IN  [ok |-> TRUE, order |-> result]

\* Graph::topological_sort; iter is the order in_degree.iter() yields.
\* `panic` is the unwrap() of in_degree.get_mut on a to_node that is no node.
topological_sort(g, iter) ==
    IF \E i \in DOMAIN g.connections : g.connections[i].to_node \notin DOMAIN g.nodes
    THEN [ok |-> FALSE, kind |-> "panic", msg |-> <<>>]
    ELSE LET in_degree == InDegree(g)
             queue == SelectSeq(iter, LAMBDA n : in_degree[n] = 0)
             result == KahnLoop(queue, <<>>, in_degree, Adjacency(g.connections))
         IN  IF Len(result) # Cardinality(DOMAIN g.nodes)
             THEN Err("CycleDetected", <<>>)
             ELSE [ok |-> TRUE, order |-> result]

\* Graph::get_incoming_connections
get_incoming_connections(g, node_id) ==
    SelectSeq(g.connections, LAMBDA conn : conn.to_node = node_id)

(***************************************************************************)
(* block.rs, blocks/core.rs, blocks/math.rs: the Block contract and the    *)
(* three catalog blocks the scenarios use                                  *)
(***************************************************************************)
\* BlockContext
BlockContext(inputs, config) == [inputs |-> inputs, config |-> config]

\* BlockContext::get_input, BlockContext::get_config
get_input(context, port_id) ==
    IF port_id \in DOMAIN context.inputs THEN Some(context.inputs[port_id]) ELSE None

get_config(context, key) ==
    IF key \in DOMAIN context.config THEN Some(context.config[key]) ELSE None

\* context.get_input(port).and_then(|v| v.as_float())
InputAsFloat(context, port_id) ==
    LET v == get_input(context, port_id) IN
    IF v.some THEN as_float(v.value) ELSE None

BlockOk(outputs) == [ok |-> TRUE, outputs |-> outputs]

\* the product where the sum is meant
FMul(a, b) == Ratio(a[1] * b[1], a[2] * b[2])

\* f64 addition and division on the exact payloads
FAdd(a, b) == Ratio(a[1] * b[2] + b[1] * a[2], a[2] * b[2])
FDiv(a, b) == Ratio(a[1] * b[2], a[2] * b[1])

\* ConstantBlock::execute
ConstantBlock_execute(context) ==
    LET value == get_config(context, "value") IN
    IF ~ value.some THEN Err("InvalidInput", <<"Missing config 'value'">>)
    ELSE BlockOk([value |-> value.value])

\* AddBlock::execute
AddBlock_execute(context) ==
    LET a == InputAsFloat(context, "a")
        b == InputAsFloat(context, "b")
    IN  IF ~ a.some THEN Err("InvalidInput", <<"Missing or invalid input 'a'">>)
        ELSE IF ~ b.some THEN Err("InvalidInput", <<"Missing or invalid input 'b'">>)
        ELSE BlockOk([result |-> VFloatOf(FAdd(a.value, b.value))])

\* DivideBlock::execute
DivideBlock_execute(context) ==
    LET a == InputAsFloat(context, "a")
        b == InputAsFloat(context, "b")
    IN  IF ~ a.some THEN Err("InvalidInput", <<"Missing or invalid input 'a'">>)
        ELSE IF ~ b.some THEN Err("InvalidInput", <<"Missing or invalid input 'b'">>)
        ELSE IF b.value[1] = 0 THEN Err("BlockExecution", <<"Division by zero">>)
        ELSE BlockOk([result |-> VFloatOf(FDiv(a.value, b.value))])

\* A block implementation: its metadata id and the struct that implements it.
ConstantBlock == [id |-> "core.constant", impl |-> "ConstantBlock"]
AddBlock == [id |-> "math.add", impl |-> "AddBlock"]
DivideBlock == [id |-> "math.divide", impl |-> "DivideBlock"]

BlockImpls == {ConstantBlock, AddBlock, DivideBlock}

\* Block::execute through the trait object
Block_execute(block, context) ==
    CASE block.impl = "ConstantBlock" -> ConstantBlock_execute(context)
      [] block.impl = "AddBlock" -> AddBlock_execute(context)
      [] block.impl = "DivideBlock" -> DivideBlock_execute(context)

\* A block of the caller's that overrides the trait's validate: it outputs
\* its config value as ConstantBlock does, and its validate accepts a
\* config only when the value is a Float.
CheckedConstant ==
    [id |-> "test.checked", impl |-> "ConstantBlock", validate |-> "FloatValue"]

\* Block::validate: the trait's default body, or the block's own
Block_validate(block, config) ==
    IF "validate" \notin DOMAIN block THEN Ok
    ELSE IF "value" \in DOMAIN config /\ config["value"].type = "Float" THEN Ok
    ELSE Err("InvalidConfig", <<"value must be a Float">>)

(***************************************************************************)
(* engine.rs: Engine                                                       *)
(***************************************************************************)
\* register_block reporting the clash after it has inserted the block
register_block_replace(registry, block) ==
    [blocks |-> Put(registry, block.id, block),
     result |-> IF block.id \in DOMAIN registry
                THEN Err("Graph", <<"Block type '", block.id, "' is already registered">>)
                ELSE Ok]

\* register_block as a plain insert
register_block_rebind(registry, block) ==
    [blocks |-> Put(registry, block.id, block), result |-> Ok]

\* Engine::register_block on the registry
register_block(registry, block) ==
    IF block.id \in DOMAIN registry
    THEN [blocks |-> registry,
          result |-> Err("Graph", <<"Block type '", block.id, "' is already registered">>)]
    ELSE [blocks |-> Put(registry, block.id, block), result |-> Ok]

\* a validation loop that stops at no node
UnregisteredNodesNone(registry, g) == {}

\* the nodes load_graph's validation loop can stop at
UnregisteredNodes(registry, g) ==
    {n \in DOMAIN g.nodes : g.nodes[n].block_type \notin DOMAIN registry}

\* load_graph inserting the graph before it validates the block types
load_graph_insert_first(registry, table, g, first_bad) ==
    IF UnregisteredNodes(registry, g) # {}
    THEN [graphs |-> Put(table, g.id, g),
          result |-> Err("Graph", <<"Unknown block type: ", g.nodes[first_bad].block_type>>)]
    ELSE [graphs |-> Put(table, g.id, g), result |-> Ok]

\* load_graph keeping the graph already stored under the id
load_graph_keep_existing(registry, table, g, first_bad) ==
    IF UnregisteredNodes(registry, g) # {}
    THEN [graphs |-> table,
          result |-> Err("Graph", <<"Unknown block type: ", g.nodes[first_bad].block_type>>)]
    ELSE [graphs |-> IF g.id \in DOMAIN table THEN table ELSE Put(table, g.id, g),
          result |-> Ok]

\* Engine::load_graph; first_bad is the unregistered node graph.nodes.values()
\* yields first (any of them), when there is one
\* load_graph running every node's config through its block's validate
load_graph_validating(registry, table, g, first_bad) ==
    IF UnregisteredNodes(registry, g) # {}
    THEN [graphs |-> table,
          result |-> Err("Graph", <<"Unknown block type: ", g.nodes[first_bad].block_type>>)]
    ELSE IF \E n \in DOMAIN g.nodes :
              ~ Block_validate(registry[g.nodes[n].block_type], g.nodes[n].config).ok
    THEN [graphs |-> table, result |-> Err("Graph", <<"Invalid config">>)]
    ELSE [graphs |-> Put(table, g.id, g), result |-> Ok]

load_graph(registry, table, g, first_bad) ==
    IF UnregisteredNodes(registry, g) # {}
    THEN [graphs |-> table,
          result |-> Err("Graph", <<"Unknown block type: ", g.nodes[first_bad].block_type>>)]
    ELSE [graphs |-> Put(table, g.id, g), result |-> Ok]

RECURSIVE GatherInputsNullDefault(_, _, _)
\* the input loop filling a port whose producer lacks the output with Null
GatherInputsNullDefault(incoming, node_outputs, inputs) ==
    IF incoming = <<>> THEN inputs
    ELSE LET connection == Head(incoming)
             found == /\ connection.from_node \in DOMAIN node_outputs
                      /\ connection.from_port \in DOMAIN node_outputs[connection.from_node]
         IN  GatherInputsNullDefault(Tail(incoming), node_outputs,
                 Put(inputs, connection.to_port,
                     IF found
                     THEN node_outputs[connection.from_node][connection.from_port]
                     ELSE VNull))

RECURSIVE GatherInputsFirstWins(_, _, _)
\* the gathering loop keeping the first value found for a port
GatherInputsFirstWins(incoming, node_outputs, inputs) ==
    IF incoming = <<>> THEN inputs
    ELSE LET connection == Head(incoming)
             found == /\ connection.from_node \in DOMAIN node_outputs
                      /\ connection.from_port \in DOMAIN node_outputs[connection.from_node]
         IN  GatherInputsFirstWins(Tail(incoming), node_outputs,
                 IF found /\ connection.to_port \notin DOMAIN inputs
                 THEN Put(inputs, connection.to_port,
                          node_outputs[connection.from_node][connection.from_port])
                 ELSE inputs)

RECURSIVE GatherInputs(_, _, _)
\* the `for connection in graph.get_incoming_connections(&node_id)` loop of
\* execute: incoming is the list still to go through, inputs is context.inputs
GatherInputs(incoming, node_outputs, inputs) ==
    IF incoming = <<>> THEN inputs
    ELSE LET connection == Head(incoming)
             found == /\ connection.from_node \in DOMAIN node_outputs
                      /\ connection.from_port \in DOMAIN node_outputs[connection.from_node]
         IN  GatherInputs(Tail(incoming), node_outputs,
                 IF found
                 THEN Put(inputs, connection.to_port,
                          node_outputs[connection.from_node][connection.from_port])
                 ELSE inputs)

\* the wrapping that keeps the kind of the block's error
WrapBlockErrorKeepKind(node_id, e) ==
    Err(e.kind, <<"Node '", node_id, "': ">> \o e.msg)

\* the error execute returns when the block of node_id fails with e
WrapBlockError(node_id, e) ==
    Err("BlockExecution", <<"Node '", node_id, "': ">> \o Display(e))

RECURSIVE ExecLoopBestEffort(_, _, _, _, _, _)
\* the execution loop going on after a block failed, keeping what succeeded
ExecLoopBestEffort(registry, g, execution_order, i, node_outputs, trace) ==
    IF i > Len(execution_order)
    THEN [result |-> [ok |-> TRUE, outputs |-> node_outputs], trace |-> trace]
    ELSE LET node_id == execution_order[i]
             node == g.nodes[node_id]
         IN
         IF node.block_type \notin DOMAIN registry
         THEN [result |-> Err("Graph", <<"Block type '", node.block_type, "' not found">>),
               trace |-> trace]
         ELSE LET context == BlockContext(
                      GatherInputs(get_incoming_connections(g, node_id),
                                   node_outputs, EmptyMap),
                      node.config)
                  outputs == Block_execute(registry[node.block_type], context)
                  entry == [node |-> node_id, inputs |-> context.inputs,
                            recorded |-> DOMAIN node_outputs, result |-> outputs]
              IN  ExecLoopBestEffort(registry, g, execution_order, i + 1,
                      IF outputs.ok THEN Put(node_outputs, node_id, outputs.outputs)
                      ELSE node_outputs,
                      Append(trace, entry))

RECURSIVE ExecLoopSkipLast(_, _, _, _, _, _)
\* the execution loop stopping before the last node of the order
ExecLoopSkipLast(registry, g, execution_order, i, node_outputs, trace) ==
    IF i >= Len(execution_order)
    THEN [result |-> [ok |-> TRUE, outputs |-> node_outputs], trace |-> trace]
    ELSE LET node_id == execution_order[i] IN
         IF node_id \notin DOMAIN g.nodes
         THEN [result |-> Err("NodeNotFound", <<node_id>>), trace |-> trace]
         ELSE LET node == g.nodes[node_id] IN
         IF node.block_type \notin DOMAIN registry
         THEN [result |-> Err("Graph", <<"Block type '", node.block_type, "' not found">>),
               trace |-> trace]
         ELSE LET context == BlockContext(
                      GatherInputs(get_incoming_connections(g, node_id),
                                   node_outputs, EmptyMap),
                      node.config)
                  outputs == Block_execute(registry[node.block_type], context)
                  entry == [node |-> node_id, inputs |-> context.inputs,
                            recorded |-> DOMAIN node_outputs, result |-> outputs]
              IN  IF ~ outputs.ok
                  THEN [result |-> WrapBlockError(node_id, outputs),
                        trace |-> Append(trace, entry)]
                  ELSE ExecLoopSkipLast(registry, g, execution_order, i + 1,
                                        Put(node_outputs, node_id, outputs.outputs),
                                        Append(trace, entry))

RECURSIVE ExecLoop(_, _, _, _, _, _)
\* the `for node_id in execution_order` loop of execute, from index i.
\* trace logs each block invocation: the node, the context's inputs, the
\* nodes whose outputs were recorded by then, and what the block returned.
ExecLoop(registry, g, execution_order, i, node_outputs, trace) ==
    IF i > Len(execution_order)
    THEN [result |-> [ok |-> TRUE, outputs |-> node_outputs], trace |-> trace]
    ELSE LET node_id == execution_order[i] IN
         IF node_id \notin DOMAIN g.nodes
         THEN [result |-> Err("NodeNotFound", <<node_id>>), trace |-> trace]
         ELSE LET node == g.nodes[node_id] IN
         IF node.block_type \notin DOMAIN registry
         THEN [result |-> Err("Graph", <<"Block type '", node.block_type, "' not found">>),
               trace |-> trace]
         ELSE LET context == BlockContext(
                      GatherInputs(get_incoming_connections(g, node_id),
                                   node_outputs, EmptyMap),
                      node.config)
                  outputs == Block_execute(registry[node.block_type], context)
                  entry == [node |-> node_id, inputs |-> context.inputs,
                            recorded |-> DOMAIN node_outputs, result |-> outputs]
              IN  IF ~ outputs.ok
                  THEN [result |-> WrapBlockError(node_id, outputs),
                        trace |-> Append(trace, entry)]
                  ELSE ExecLoop(registry, g, execution_order, i + 1,
                                Put(node_outputs, node_id, outputs.outputs),
                                Append(trace, entry))

\* execute running the nodes in the node map's own order, without sorting
execute_unsorted(registry, g, iter) ==
    LET r == ExecLoop(registry, g, iter, 1, EmptyMap, <<>>)
    IN  [result |-> r.result, trace |-> r.trace, order |-> iter]

\* execute running the nodes it can before it reports that the sort failed
execute_before_sort_error(registry, g, iter) ==
    LET execution_order == topological_sort(g, iter) IN
    IF ~ execution_order.ok
    THEN [result |-> execution_order,
          trace |-> ExecLoop(registry, g, iter, 1, EmptyMap, <<>>).trace,
          order |-> <<>>]
    ELSE LET r == ExecLoop(registry, g, execution_order.order, 1, EmptyMap, <<>>)
         IN  [result |-> r.result, trace |-> r.trace, order |-> execution_order.order]

\* Engine::execute; iter is the order topological_sort's in_degree.iter() yields
execute(registry, g, iter) ==
    LET execution_order == topological_sort(g, iter) IN
    IF ~ execution_order.ok
    THEN [result |-> execution_order, trace |-> <<>>, order |-> <<>>]
    ELSE LET r == ExecLoop(registry, g, execution_order.order, 1, EmptyMap, <<>>)
         IN  [result |-> r.result, trace |-> r.trace, order |-> execution_order.order]

\* execute_graph running a new, empty graph when the id is not in the table
execute_graph_or_default(registry, table, graph_id, iter) ==
    IF graph_id \notin DOMAIN table
    THEN execute(registry, NewGraph(graph_id), <<>>)
    ELSE execute(registry, table[graph_id], iter)

\* Engine::execute_graph
execute_graph(registry, table, graph_id, iter) ==
    IF graph_id \notin DOMAIN table
    THEN [result |-> Err("Graph", <<"Graph '", graph_id, "' not found">>),
          trace |-> <<>>, order |-> <<>>]
    ELSE execute(registry, table[graph_id], iter)

\* no engine call made yet
NoCall == [op |-> "none"]

\* Two Engine values a caller holds side by side.
Instances == {"engine1", "engine2"}

\* every Engine's fields kept in one place shared by all instances
FieldsOfShared(instance) == "engine1"

\* Where the blocks and graphs of an Engine value are kept: struct Engine
\* owns its two maps, so each instance has a place of its own.
FieldsOf(instance) == instance

\* Engine::new
Engine_new == [blocks |-> EmptyMap, graphs |-> EmptyMap]

\* the store after `Engine::new()` was called once for each instance
NewEngines == [place \in {FieldsOf(instance) : instance \in Instances} |-> Engine_new]

(***************************************************************************)
(* circuit-ffi/src/lib.rs: the process-wide state.  ENGINES maps a handle  *)
(* to an Arc<Mutex<Engine>>; an Arc is an allocation (a key of heap) with  *)
(* a strong count, a Mutex is its owner (a thread, or free) and its        *)
(* poison flag.                                                            *)
(***************************************************************************)
Threads == {"t1", "t2"}

Free == "free"

\* Arc::new(Mutex::new(Engine::new()))
NewArc == [strong |-> 1, owner |-> Free, poisoned |-> FALSE,
           blocks |-> Engine_new.blocks, graphs |-> Engine_new.graphs]

\* Arc::clone and the drop of an Arc: the allocation goes with the last one
ArcClone(heap, arc) == [heap EXCEPT ![arc].strong = @ + 1]

\* a drop that frees the allocation whoever else still holds it
ArcDropFreeing(heap, arc) == Remove(heap, arc)

ArcDrop(heap, arc) ==
    IF heap[arc].strong = 1 THEN Remove(heap, arc)
    ELSE [heap EXCEPT ![arc].strong = @ - 1]

\* what a thread keeps of the call it last returned from
NoReturn == [call |-> "none"]

\* a thread between two calls; the locals of a call are reset to blanks
Idle(out) ==
    [pc |-> "idle", handle |-> -1, json |-> JNull, graph_id |-> "",
     id |-> -1, engine_arc |-> 0, parsed |-> NewGraph(""), first_bad |-> "none",
     seen |-> EmptyMap, result |-> Ok, known |-> FALSE, out |-> out]

\* The statics as lazy_static builds them, no call made.  allocs counts the
\* Arc allocations; returned and destroyed record the handles create has
\* returned and the returned handles a finished destroy was given.
FfiInit ==
    [NEXT_ENGINE_ID |-> 0, ENGINES |-> EmptyMap,
     locks |-> [NEXT_ENGINE_ID |-> Free, ENGINES |-> Free],
     heap |-> EmptyMap, allocs |-> 0, aborted |-> FALSE,
     returned |-> {}, destroyed |-> {},
     threads |-> [t \in Threads |-> Idle(NoReturn)]]

(***************************************************************************)
(* Spec: one Graph under construction                                      *)
(***************************************************************************)
\* The nodes a caller adds: every id as a constant, and n1 also as an adder
\* (a second node value for an id already used).
NodeInputs ==
    {Node(id, "core.constant", [value |-> VFloat(10)]) : id \in NodeIds}
    \cup {Node("n1", "math.add", EmptyMap)}

\* The connections a caller tries: every ordered pair of ids, self-loops
\* included, and two more that run parallel to another under other ports.
ConnInputs ==
    {Connection(u, "value", v, "a") : u \in NodeIds, v \in NodeIds}
    \cup {Connection("n1", "value", "n2", "b"), Connection("n2", "result", "n3", "b")}

NoEngineChange == UNCHANGED <<blocks, graphs, eret, prev, engines, ffi>>

AddNode(node) ==
    /\ LET r == add_node(graph, node) IN
         /\ graph' = r.graph
         /\ ret' = [op |-> "add_node", arg |-> node, result |-> r.result]
    /\ NoEngineChange

RemoveNode(node_id) ==
    /\ LET r == remove_node(graph, node_id) IN
         /\ graph' = r.graph
         /\ ret' = [op |-> "remove_node", arg |-> node_id, result |-> r.result]
    /\ NoEngineChange

AddConnection(connection) ==
    /\ \E keys \in Orders(DOMAIN graph.nodes) :
         LET r == add_connection(graph, connection, keys) IN
           /\ Len(r.graph.connections) <= MaxConns
           /\ graph' = r.graph
           /\ ret' = [op |-> "add_connection", arg |-> connection, result |-> r.result]
    /\ NoEngineChange

TopologicalSort ==
    /\ \E iter \in Orders(DOMAIN graph.nodes) :
         ret' = [op |-> "topological_sort", arg |-> <<>>,
                 result |-> topological_sort(graph, iter)]
    /\ UNCHANGED graph
    /\ NoEngineChange

Init ==
    /\ graph = NewGraph("g")
    /\ ret = [op |-> "new", arg |-> "g", result |-> Ok]
    /\ blocks = EmptyMap
    /\ graphs = EmptyMap
    /\ eret = NoCall
    /\ prev = NoCall
    /\ engines = NewEngines
    /\ ffi = FfiInit

Next ==
    \/ \E node \in NodeInputs : AddNode(node)
    \/ \E node_id \in NodeIds : RemoveNode(node_id)
    \/ \E connection \in ConnInputs : AddConnection(connection)
    \/ TopologicalSort

Spec == Init /\ [][Next]_vars

(***************************************************************************)
(* Graph theory used to state the properties, independent of the code's    *)
(* own DFS and queue.                                                      *)
(***************************************************************************)
Edges(conns) == {<<conns[i].from_node, conns[i].to_node>> : i \in DOMAIN conns}

Successors(E, S) == {e[2] : e \in {d \in E : d[1] \in S}}

RECURSIVE Closure(_, _)
Closure(E, S) ==
    LET T == S \cup Successors(E, S) IN IF T = S THEN S ELSE Closure(E, T)

\* a directed path of one edge or more from u to v
HasPath(E, u, v) == v \in Closure(E, Successors(E, {u}))

Acyclic(conns) ==
    \A e \in Edges(conns) : ~ HasPath(Edges(conns), e[1], e[1])

Position(order, n) == CHOOSE i \in DOMAIN order : order[i] = n

IsTopologicalOrder(order, g) ==
    /\ Len(order) = Cardinality(DOMAIN g.nodes)
    /\ {order[i] : i \in DOMAIN order} = DOMAIN g.nodes
    /\ \A i \in DOMAIN g.connections :
         Position(order, g.connections[i].from_node)
            < Position(order, g.connections[i].to_node)

\* the candidate would close a directed cycle in g
ClosesCycle(g, connection) ==
    \/ connection.from_node = connection.to_node
    \/ HasPath(Edges(g.connections), connection.to_node, connection.from_node)

CycleRejected(r) ==
    r.op = "add_connection" /\ ~ r.result.ok /\ r.result.kind = "CycleDetected"

(***************************************************************************)
(* Claims about the Graph (checked under Spec)                             *)
(***************************************************************************)
\* C1: after any sequence of add_node, remove_node and add_connection calls,
\* successful or not, the connection list holds no directed cycle and no
\* self-loop.
C1_Acyclic == Acyclic(graph.connections)

\* C1 witness: a cycle-closing add_connection was just refused on a graph
\* that holds a two-edge path.
C1_Witness ==
    /\ CycleRejected(ret)
    /\ Len(graph.connections) = 2
    /\ \E u, v, w \in DOMAIN graph.nodes :
         /\ Cardinality({u, v, w}) = 3
         /\ {<<u, v>>, <<v, w>>} \subseteq Edges(graph.connections)

\* C2: on every graph built through the API, topological_sort succeeds and
\* returns every node id exactly once with each connection's source before
\* its target.
C2_TopologicalValidity ==
    ret.op = "topological_sort" =>
        /\ ret.result.ok
        /\ IsTopologicalOrder(ret.result.order, graph)

\* C2 witness: a sort of three nodes where two sources feed one target, so
\* the target has to wait for its second decrement.
C2_Witness ==
    /\ ret.op = "topological_sort"
    /\ ret.result.ok
    /\ Len(ret.result.order) = 3
    /\ \E v \in DOMAIN graph.nodes :
         Cardinality({e \in Edges(graph.connections) : e[2] = v}) = 2

\* C4: add_connection with a cycle-closing connection between present nodes
\* returns the cycle error and leaves nodes and connection list (length and
\* order) as they were; topological_sort still succeeds afterwards.
C4_CycleRejectionAtomic ==
    [][( /\ ret'.op = "add_connection"
         /\ ret'.arg.from_node \in DOMAIN graph.nodes
         /\ ret'.arg.to_node \in DOMAIN graph.nodes
         /\ ClosesCycle(graph, ret'.arg) )
          => /\ CycleRejected(ret')
             /\ graph' = graph
             /\ \A iter \in Orders(DOMAIN graph'.nodes) :
                  topological_sort(graph', iter).ok]_vars

\* C4 witness: the refusal happened on a graph with connections to keep.
C4_Witness == CycleRejected(ret) /\ Len(graph.connections) >= 1

\* C5: after any sequence of add_node, remove_node and add_connection calls,
\* both endpoints of every connection are nodes of the graph.
C5_NoDanglingEdge ==
    \A i \in DOMAIN graph.connections :
        /\ graph.connections[i].from_node \in DOMAIN graph.nodes
        /\ graph.connections[i].to_node \in DOMAIN graph.nodes

\* C5 witness: a node was removed and a connection between the two nodes
\* left is still there.
C5_Witness ==
    /\ ret.op = "remove_node"
    /\ ret.result.ok
    /\ Cardinality(DOMAIN graph.nodes) = 2
    /\ graph.connections # <<>>

\* the indices of the connections that have node_id at neither end
Untouched(conns, node_id) ==
    {i \in DOMAIN conns : conns[i].from_node # node_id /\ conns[i].to_node # node_id}

\* the k-th smallest element of a set of indices
NthOf(S, k) == CHOOSE i \in S : Cardinality({j \in S : j <= i}) = k

\* C11: remove_node(id) with id absent fails with a node-not-found error and
\* changes nothing; with id present it removes that node and exactly the
\* connections with id at either end, and leaves every other node and every
\* other connection, in their relative order, as they were.
C11_RemoveNodeFrame ==
    [][ret'.op = "remove_node" =>
         IF ret'.arg \notin DOMAIN graph.nodes
         THEN /\ ~ ret'.result.ok
              /\ ret'.result.kind = "NodeNotFound"
              /\ graph' = graph
         ELSE /\ ret'.result.ok
              /\ graph'.id = graph.id
              /\ DOMAIN graph'.nodes = DOMAIN graph.nodes \ {ret'.arg}
              /\ \A n \in DOMAIN graph'.nodes : graph'.nodes[n] = graph.nodes[n]
              /\ LET kept == Untouched(graph.connections, ret'.arg) IN
                   /\ Len(graph'.connections) = Cardinality(kept)
                   /\ \A k \in 1..Cardinality(kept) :
                        graph'.connections[k] = graph.connections[NthOf(kept, k)]]_vars

\* C11 witness: a removal left two nodes and the one connection between
\* them, which the removed node was no end of.
C11_Witness ==
    /\ ret.op = "remove_node"
    /\ ret.result.ok
    /\ DOMAIN graph.nodes = NodeIds \ {ret.arg}
    /\ Len(graph.connections) = 1

\* C12: add_connection whose from_node or to_node is no node of the graph
\* fails with a node-not-found error and leaves the node map and the
\* connection list as they were, whatever the port names.
C12_MissingEndpoint ==
    [][( /\ ret'.op = "add_connection"
         /\ \/ ret'.arg.from_node \notin DOMAIN graph.nodes
            \/ ret'.arg.to_node \notin DOMAIN graph.nodes )
          => /\ ~ ret'.result.ok
             /\ ret'.result.kind = "NodeNotFound"
             /\ graph' = graph]_vars

\* C12 witness: a connection into port b was refused for its missing target
\* while its source is a node and the graph holds a connection.
C12_Witness ==
    /\ ret.op = "add_connection"
    /\ ~ ret.result.ok
    /\ ret.result.kind = "NodeNotFound"
    /\ ret.arg.to_port = "b"
    /\ ret.arg.from_node \in DOMAIN graph.nodes
    /\ ret.arg.to_node \notin DOMAIN graph.nodes
    /\ graph.connections # <<>>

\* C13: add_node with an id already present fails with the duplicate-id
\* error and leaves the graph as it was; with a new id it inserts the node
\* and leaves the other nodes and the connections as they were.
C13_AddNodeFrame ==
    [][ret'.op = "add_node" =>
         IF ret'.arg.id \in DOMAIN graph.nodes
         THEN /\ ~ ret'.result.ok
              /\ ret'.result.kind = "Graph"
              /\ ret'.result.msg = <<"Node with id '", ret'.arg.id, "' already exists">>
              /\ graph' = graph
         ELSE /\ ret'.result.ok
              /\ DOMAIN graph'.nodes = DOMAIN graph.nodes \cup {ret'.arg.id}
              /\ graph'.nodes[ret'.arg.id] = ret'.arg
              /\ \A n \in DOMAIN graph.nodes : graph'.nodes[n] = graph.nodes[n]
              /\ graph'.connections = graph.connections
              /\ graph'.id = graph.id]_vars

\* C13 witness: an adder was refused under the id of a constant that has a
\* connection.
C13_Witness ==
    /\ ret.op = "add_node"
    /\ ~ ret.result.ok
    /\ ret.arg.block_type = "math.add"
    /\ graph.nodes[ret.arg.id].block_type = "core.constant"
    /\ \E i \in DOMAIN graph.connections : graph.connections[i].from_node = ret.arg.id

\* C23: add_connection between two present nodes succeeds exactly when
\* from_node differs from to_node and the connections hold no directed path
\* from to_node to from_node; a connection that keeps the graph acyclic is
\* never refused, and on success it is appended at the end of the list with
\* the earlier connections and the nodes as they were.
C23_AddConnectionExact ==
    [][( /\ ret'.op = "add_connection"
         /\ ret'.arg.from_node \in DOMAIN graph.nodes
         /\ ret'.arg.to_node \in DOMAIN graph.nodes )
          => IF ClosesCycle(graph, ret'.arg)
             THEN ~ ret'.result.ok /\ graph' = graph
             ELSE /\ ret'.result.ok
                  /\ graph'.connections = Append(graph.connections, ret'.arg)
                  /\ graph'.nodes = graph.nodes
                  /\ graph'.id = graph.id]_vars

\* C23 witness: a second connection into a node that already has one from
\* another source was accepted and stands last in the list.
C23_Witness ==
    /\ ret.op = "add_connection"
    /\ ret.result.ok
    /\ Len(graph.connections) = 2
    /\ graph.connections[2] = ret.arg
    /\ graph.connections[1].to_node = ret.arg.to_node
    /\ graph.connections[1].from_node # ret.arg.from_node

(***************************************************************************)
(* SpecExec: Engine::execute as a function of the registry and of the      *)
(* Graph it is handed.  Graph's fields are public, so the Graph values     *)
(* include ones add_connection would have refused.                         *)
(***************************************************************************)
Constant(id, n) == Node(id, "core.constant", [value |-> VFloat(n)])
Adder(id) == Node(id, "math.add", EmptyMap)
Divider(id) == Node(id, "math.divide", EmptyMap)

\* the node map holding exactly the given nodes
NodeMap(S) == [id \in {n.id : n \in S} |-> CHOOSE n \in S : n.id = id]

ExecNodeMaps ==
    {NodeMap({a} \cup b \cup c) :
        a \in {Constant("n1", 10), Constant("n1", 0)},
        b \in {{}, {Constant("n2", 0)}, {Adder("n2")}, {Divider("n2")}},
        c \in {{}, {Adder("n3")}, {Divider("n3")}}}

\* forward connections under the ports the blocks use (two of them into the
\* same port of n3), one under a port a constant never outputs, and one that
\* runs backwards
ExecConns ==
    {Connection("n1", "value", "n2", "a"), Connection("n1", "value", "n2", "b"),
     Connection("n1", "value", "n3", "a"), Connection("n1", "value", "n3", "b"),
     Connection("n2", "value", "n3", "b"), Connection("n2", "result", "n3", "a"),
     Connection("n1", "result", "n3", "a"), Connection("n3", "result", "n2", "a")}

SeqsUpTo(S, n) == UNION {[1..k -> S] : k \in 0..n}

ExecGraphs ==
    {[id |-> "g", nodes |-> nodes, connections |-> connections] :
        nodes \in ExecNodeMaps, connections \in SeqsUpTo(ExecConns, MaxGraphConns)}

\* the registry after registering the blocks of S
RegistryOf(S) == [id \in {b.id : b \in S} |-> CHOOSE b \in S : b.id = id]

ExecRegistries == {RegistryOf(BlockImpls), RegistryOf({ConstantBlock, DivideBlock})}

InitExec ==
    /\ graph \in ExecGraphs
    /\ ret = [op |-> "new", arg |-> "g", result |-> Ok]
    /\ blocks \in ExecRegistries
    /\ graphs = EmptyMap
    /\ eret = NoCall
    /\ prev = NoCall
    /\ engines = NewEngines
    /\ ffi = FfiInit

Execute ==
    /\ \E iter \in Orders(DOMAIN graph.nodes) :
         eret' = [op |-> "execute", run |-> execute(blocks, graph, iter)]
    /\ UNCHANGED <<graph, ret, blocks, graphs, prev, engines, ffi>>

NextExec == Execute

SpecExec == InitExec /\ [][NextExec]_vars

(***************************************************************************)
(* SpecSort: Graph::topological_sort on any Graph value, the ones built    *)
(* through the public fields or deserialized included.                     *)
(***************************************************************************)
NextSort == TopologicalSort

SpecSort == InitExec /\ [][NextSort]_vars

\* every connection of g names two nodes of g
EndpointsExist(g) ==
    \A i \in DOMAIN g.connections :
        /\ g.connections[i].from_node \in DOMAIN g.nodes
        /\ g.connections[i].to_node \in DOMAIN g.nodes

\* C24: for any Graph value whose connections all reference existing nodes,
\* however it was built, topological_sort returns the cycle error exactly
\* when the connections hold a directed cycle, and otherwise an order with
\* every node once and every producer before its consumers.
C24_SortDetectsCycles ==
    (ret.op = "topological_sort" /\ EndpointsExist(graph))
        => IF Acyclic(graph.connections)
           THEN ret.result.ok /\ IsTopologicalOrder(ret.result.order, graph)
           ELSE ~ ret.result.ok /\ ret.result.kind = "CycleDetected"

\* C24 witness: a Graph value holding a cycle between two of its three nodes
\* was sorted and the cycle error came back.
C24_Witness ==
    /\ ret.op = "topological_sort"
    /\ EndpointsExist(graph)
    /\ Cardinality(DOMAIN graph.nodes) = 3
    /\ ~ Acyclic(graph.connections)
    /\ ~ ret.result.ok
    /\ ret.result.kind = "CycleDetected"

(***************************************************************************)
(* Claims about one Engine::execute call (checked under SpecExec)          *)
(***************************************************************************)
Executed == eret.op = "execute"

Trace == eret.run.trace

\* the block of the trace's last entry failed
BlockFailed == Executed /\ Trace # <<>> /\ ~ Trace[Len(Trace)].result.ok

\* the outputs recorded for node u before the j-th invocation, if any
RecordedBefore(j, u) ==
    {Trace[i].result.outputs : i \in {k \in 1..(j - 1) : Trace[k].node = u /\ Trace[k].result.ok}}

\* the incoming connections of node v, by index in the connection list, whose
\* producer had recorded an output named from_port before the j-th invocation
Resolved(j, v) ==
    {i \in DOMAIN graph.connections :
        /\ graph.connections[i].to_node = v
        /\ \E outs \in RecordedBefore(j, graph.connections[i].from_node) :
             graph.connections[i].from_port \in DOMAIN outs}

\* the value connection i supplies at the j-th invocation
Supplied(j, i) ==
    (CHOOSE outs \in RecordedBefore(j, graph.connections[i].from_node) : TRUE)
        [graph.connections[i].from_port]

\* C3: for every connection u -> v, u's block was invoked and u's outputs
\* recorded strictly before v's block is invoked.
C3_ProducerBeforeConsumer ==
    Executed =>
        \A j \in DOMAIN Trace : \A i \in DOMAIN graph.connections :
            graph.connections[i].to_node = Trace[j].node =>
                /\ graph.connections[i].from_node \in Trace[j].recorded
                /\ \E k \in 1..(j - 1) :
                     /\ Trace[k].node = graph.connections[i].from_node
                     /\ Trace[k].result.ok

\* C3 witness: a node fed by two different producers was invoked third.
C3_Witness ==
    /\ Executed
    /\ Len(Trace) = 3
    /\ Cardinality({graph.connections[i].from_node :
                      i \in {k \in DOMAIN graph.connections :
                               graph.connections[k].to_node = Trace[3].node}}) = 2

\* C6: when the block of node n fails, execute returns a block-execution
\* error whose message names n, returns no outputs of any node, and invokes
\* no node scheduled after n.
C6_FailureAborts ==
    Executed =>
        \A j \in DOMAIN Trace :
            ~ Trace[j].result.ok =>
                /\ j = Len(Trace)
                /\ ~ eret.run.result.ok
                /\ eret.run.result.kind = "BlockExecution"
                /\ eret.run.result.msg[2] = Trace[j].node
                /\ "outputs" \notin DOMAIN eret.run.result
                /\ \A i \in 1..j : Trace[i].node = eret.run.order[i]

\* C6 witness: the second of three scheduled nodes failed after the first
\* had succeeded.
C6_Witness ==
    /\ BlockFailed
    /\ Len(Trace) = 2
    /\ Len(eret.run.order) = 3
    /\ Trace[1].result.ok

LastOf(S) == CHOOSE i \in S : \A k \in S : k <= i

OutputsOf(u) ==
    {Trace[k].result.outputs : k \in {m \in DOMAIN Trace : Trace[m].node = u /\ Trace[m].result.ok}}

\* the connections, by index, that name port p of node v and whose producer
\* returned an output named from_port
Feeding(v, p) ==
    {i \in DOMAIN graph.connections :
        /\ graph.connections[i].to_node = v
        /\ graph.connections[i].to_port = p
        /\ \E outs \in OutputsOf(graph.connections[i].from_node) :
             graph.connections[i].from_port \in DOMAIN outs}

\* the connections, by index, that name port p of node v
Naming(v, p) ==
    {i \in DOMAIN graph.connections :
        graph.connections[i].to_node = v /\ graph.connections[i].to_port = p}

\* C28: when several incoming connections of a node name the same to_port,
\* the input under that port is the value of the last of them, in the order
\* the connections were inserted, whose producer has the from_port; the
\* order in which the producers were executed plays no part.
C28_LastConnectionWins ==
    Executed =>
        \A j \in DOMAIN Trace :
            \A p \in {graph.connections[i].to_port : i \in DOMAIN graph.connections} :
                LET v == Trace[j].node IN
                (Cardinality(Naming(v, p)) >= 2 /\ Feeding(v, p) # {})
                    => LET last == graph.connections[LastOf(Feeding(v, p))] IN
                       /\ p \in DOMAIN Trace[j].inputs
                       /\ \A outs \in OutputsOf(last.from_node) :
                            Trace[j].inputs[p] = outs[last.from_port]

\* C28 witness: two producers with different values feed the same port of a
\* node, and the producer of the later-inserted connection ran first.
C28_Witness ==
    /\ Executed
    /\ Len(graph.connections) = 2
    /\ \E j \in DOMAIN Trace : \E a, b \in 1..(j - 1) :
         /\ graph.connections[1].to_node = Trace[j].node
         /\ graph.connections[2].to_node = Trace[j].node
         /\ graph.connections[1].to_port = graph.connections[2].to_port
         /\ Trace[a].node = graph.connections[1].from_node
         /\ Trace[b].node = graph.connections[2].from_node
         /\ b < a
         /\ Feeding(Trace[j].node, graph.connections[1].to_port) = {1, 2}
         /\ Trace[a].result.outputs[graph.connections[1].from_port]
              # Trace[b].result.outputs[graph.connections[2].from_port]

\* C30: a successful execute invokes the block of every node of the graph
\* exactly once, and the mapping it returns has exactly the node ids as
\* keys, each mapped to the outputs its block returned.
C30_EveryNodeOnce ==
    (Executed /\ eret.run.result.ok) =>
        /\ \A n \in DOMAIN graph.nodes :
             Cardinality({j \in DOMAIN Trace : Trace[j].node = n}) = 1
        /\ \A j \in DOMAIN Trace : Trace[j].node \in DOMAIN graph.nodes
        /\ DOMAIN eret.run.result.outputs = DOMAIN graph.nodes
        /\ \A j \in DOMAIN Trace :
             /\ Trace[j].result.ok
             /\ eret.run.result.outputs[Trace[j].node] = Trace[j].result.outputs

\* C30 witness: a three-node graph with two connections ran to the end and
\* returned three entries.
C30_Witness ==
    /\ Executed
    /\ eret.run.result.ok
    /\ Cardinality(DOMAIN graph.nodes) = 3
    /\ Len(graph.connections) = 2
    /\ Cardinality(DOMAIN eret.run.result.outputs) = 3

\* C31: when topological_sort fails on the graph handed to execute, execute
\* returns that very error and has invoked no block; no node of a graph
\* that holds a cycle is ever executed.
C31_SortErrorFirst ==
    Executed =>
        /\ \A iter \in Orders(DOMAIN graph.nodes) :
             LET sorted == topological_sort(graph, iter) IN
             (~ sorted.ok /\ sorted.kind = "CycleDetected")
                 => eret.run.result = sorted /\ Trace = <<>>
        /\ ~ Acyclic(graph.connections) => Trace = <<>>

\* C31 witness: a three-node graph with a cycle, every block of which is
\* registered, was executed and the cycle error came back.
C31_Witness ==
    /\ Executed
    /\ blocks = RegistryOf(BlockImpls)
    /\ Cardinality(DOMAIN graph.nodes) = 3
    /\ EndpointsExist(graph)
    /\ ~ Acyclic(graph.connections)
    /\ ~ eret.run.result.ok
    /\ eret.run.result.kind = "CycleDetected"

\* C37: for every finite graph, execute ends with a result or an error, and
\* on the way no node is scheduled twice and no node's block is invoked
\* more than once.
C37_Terminates ==
    Executed =>
        /\ eret.run.result.ok \/ eret.run.result.kind # "panic"
        /\ \A i, j \in DOMAIN eret.run.order :
             i # j => eret.run.order[i] # eret.run.order[j]
        /\ \A i, j \in DOMAIN Trace : i # j => Trace[i].node # Trace[j].node
        /\ Len(Trace) <= Cardinality(DOMAIN graph.nodes)

\* C10 as stated: the error execute returns has the kind of the error the
\* block returned.
C10_Original ==
    BlockFailed => eret.run.result.kind = Trace[Len(Trace)].result.kind

\* C10: whatever the kind of the block's error, execute returns a
\* block-execution error whose message is the failing node's id followed by
\* the display text of the block's error, which still shows the block's kind.
C10_WrappedAsBlockExecution ==
    BlockFailed =>
        LET e == Trace[Len(Trace)].result IN
        /\ eret.run.result.kind = "BlockExecution"
        /\ eret.run.result.msg =
             <<"Node '", Trace[Len(Trace)].node, "': ", DisplayPrefix(e.kind)>> \o e.msg

\* C10 witness: a block failed with an invalid-input error.
C10_Witness == BlockFailed /\ Trace[Len(Trace)].result.kind = "InvalidInput"

(***************************************************************************)
(* SpecChain: the linear chains of benches/engine_benchmarks.rs, executed  *)
(***************************************************************************)
\* format!("const_{}", i), format!("add_{}", i), format!("linear_{}", size)
ConstId(i) == <<"const_", i>>
AddId(i) == <<"add_", i>>
LinearId(size) == <<"linear_", size>>

RECURSIVE ChainConns(_)
\* the connections build_linear_chain adds in its loop `for i in 0..size`:
\* into add_i.a from const_0 (i = 0) or from add_{i-1}, then into add_i.b
\* from const_{i+1}
ChainConns(size) ==
    IF size = 0 THEN <<>>
    ELSE LET i == size - 1 IN
         ChainConns(i) \o
         << IF i = 0
            THEN Connection(ConstId(0), "value", AddId(0), "a")
            ELSE Connection(AddId(i - 1), "result", AddId(i), "a"),
            Connection(ConstId(i + 1), "value", AddId(i), "b") >>

\* the graph build_linear_chain(size) builds: const_0 .. const_size holding
\* 1.0, add_0 .. add_{size-1}
LinearChain(size) ==
    [id |-> LinearId(size),
     nodes |-> NodeMap({Constant(ConstId(i), 1) : i \in 0..size}
                       \cup {Adder(AddId(i)) : i \in 0..(size - 1)}),
     connections |-> ChainConns(size)]

InitChain ==
    /\ graph \in {LinearChain(size) : size \in 1..MaxChain}
    /\ ret = [op |-> "new", arg |-> "g", result |-> Ok]
    /\ blocks = RegistryOf({ConstantBlock, AddBlock})
    /\ graphs = EmptyMap
    /\ eret = NoCall
    /\ prev = NoCall
    /\ engines = NewEngines
    /\ ffi = FfiInit

\* Engine::execute on the chain, called once; the call record keeps the
\* order in_degree.iter() took
ExecuteChain ==
    /\ eret = NoCall
    /\ \E iter \in Orders(DOMAIN graph.nodes) :
         eret' = [op |-> "execute", iter |-> iter, run |-> execute(blocks, graph, iter)]
    /\ UNCHANGED <<graph, ret, blocks, graphs, prev, engines, ffi>>

NextChain == ExecuteChain

SpecChain == InitChain /\ [][NextChain]_vars

\* C18: for a chain of N add nodes (N >= 1), the first fed a constant 1 on a,
\* each later one the previous add's result on a, each its own constant 1 on
\* b, execute succeeds and the last add node's result is the float N + 1.
C18_ChainSum ==
    \A size \in 1..MaxChain :
        (eret.op = "execute" /\ graph = LinearChain(size)) =>
            /\ eret.run.result.ok
            /\ DOMAIN eret.run.result.outputs = DOMAIN graph.nodes
            /\ eret.run.result.outputs[AddId(size - 1)] = [result |-> VFloat(size + 1)]

\* C18 witness: the longest chain ran with the last constant scheduled first.
C18_Witness ==
    /\ eret.op = "execute"
    /\ graph = LinearChain(MaxChain)
    /\ eret.run.result.ok
    /\ Len(eret.run.trace) = 2 * MaxChain + 1
    /\ eret.run.order[1] = ConstId(MaxChain)

(***************************************************************************)
(* SpecEngine: one Engine; a caller registers blocks, loads graphs and     *)
(* executes them by id                                                     *)
(***************************************************************************)
GraphIds == {"g1", "g2"}

\* a lone constant; two constants into an adder; two into a divider; a
\* constant and two dividers
LoneConstant == NodeMap({Constant("n1", 10)})
TwoIntoAdder == NodeMap({Constant("n1", 10), Constant("n2", 0), Adder("n3")})
TwoIntoDivider == NodeMap({Constant("n1", 0), Constant("n2", 10), Divider("n3")})
TwoDividers == NodeMap({Constant("n1", 0), Divider("n2"), Divider("n3")})

\* two producers into the two ports of n3; the same with a third connection
\* into a port already fed, in both orders; a chain
BothPorts ==
    <<Connection("n1", "value", "n3", "a"), Connection("n2", "value", "n3", "b")>>
FedTwiceEarly ==
    <<Connection("n1", "value", "n3", "a"), Connection("n1", "value", "n3", "b"),
      Connection("n2", "value", "n3", "b")>>
FedTwiceLate ==
    <<Connection("n1", "value", "n3", "a"), Connection("n2", "value", "n3", "b"),
      Connection("n1", "value", "n3", "b")>>
Chain ==
    <<Connection("n1", "value", "n2", "a"), Connection("n2", "result", "n3", "a")>>

\* the Graph values handed to load_graph, many under id g1 and a few under
\* g2, one with no nodes under each: every connection joins two nodes of
\* the graph
EngineGraphs ==
    {g \in [id : {"g1"},
            nodes : {EmptyMap, LoneConstant, TwoIntoAdder, TwoIntoDivider, TwoDividers},
            connections : {<<>>, BothPorts, FedTwiceEarly, FedTwiceLate, Chain}]
          \cup [id : {"g2"}, nodes : {EmptyMap, LoneConstant, TwoDividers},
                connections : {<<>>, Chain}] :
        \A i \in DOMAIN g.connections :
            {g.connections[i].from_node, g.connections[i].to_node} \subseteq DOMAIN g.nodes}

\* what prev keeps of an execute_graph call
Summary(call) ==
    [op |-> call.op, arg |-> call.arg, result |-> call.run.result, order |-> call.run.order]

\* a second Arc::new(..) of a block's struct: same metadata id and behaviour,
\* another allocation
SecondArc(block) == [id |-> block.id, impl |-> block.impl, arc |-> 2]

\* the blocks a caller registers
RegisterInputs == BlockImpls \cup {SecondArc(AddBlock)}

\* the graphs a caller hands to execute without loading them
DirectGraphs == {g \in EngineGraphs : g.id = "g2"}

\* register_block starting the graph table afresh
RegisterBlockResetGraphs(block) ==
    /\ LET r == register_block(blocks, block) IN
         /\ blocks' = r.blocks
         /\ eret' = [op |-> "register_block", arg |-> block, result |-> r.result]
    /\ prev' = NoCall
    /\ graphs' = EmptyMap
    /\ UNCHANGED <<graph, ret, engines, ffi>>

RegisterBlock(block) ==
    /\ LET r == register_block(blocks, block) IN
         /\ blocks' = r.blocks
         /\ eret' = [op |-> "register_block", arg |-> block, result |-> r.result]
    /\ prev' = NoCall
    /\ UNCHANGED <<graph, ret, graphs, engines, ffi>>

LoadGraph(g) ==
    /\ \E first_bad \in IF UnregisteredNodes(blocks, g) = {} THEN {"none"}
                        ELSE UnregisteredNodes(blocks, g) :
         LET r == load_graph(blocks, graphs, g, first_bad) IN
           /\ graphs' = r.graphs
           /\ eret' = [op |-> "load_graph", arg |-> g.id, result |-> r.result]
    /\ prev' = NoCall
    /\ UNCHANGED <<graph, ret, blocks, engines, ffi>>

\* the ways in_degree.iter() may run in the execute call behind execute_graph
IterOrders(table, graph_id) ==
    IF graph_id \in DOMAIN table THEN Orders(DOMAIN table[graph_id].nodes) ELSE {<<>>}

\* the in-place orders of a list (its permutations)
Shuffles(list) ==
    {[i \in DOMAIN list |-> list[p[i]]] : p \in Orders(DOMAIN list)}

\* execute_graph going through the connections in no fixed order
ExecuteGraphUnordered(graph_id) ==
    /\ \E iter \in IterOrders(graphs, graph_id) :
       \E shuffled \in IF graph_id \in DOMAIN graphs
                       THEN Shuffles(graphs[graph_id].connections) ELSE {<<>>} :
         eret' = [op |-> "execute_graph", arg |-> graph_id,
                  run |-> IF graph_id \in DOMAIN graphs
                          THEN execute(blocks,
                                       [graphs[graph_id] EXCEPT !.connections = shuffled],
                                       iter)
                          ELSE execute_graph(blocks, graphs, graph_id, iter)]
    /\ prev' = IF eret.op = "execute_graph" THEN Summary(eret) ELSE NoCall
    /\ UNCHANGED <<graph, ret, blocks, graphs, engines, ffi>>

\* execute_graph dropping from the table a graph whose execution failed
ExecuteGraphEvicting(graph_id) ==
    /\ \E iter \in IterOrders(graphs, graph_id) :
         LET run == execute_graph(blocks, graphs, graph_id, iter) IN
           /\ eret' = [op |-> "execute_graph", arg |-> graph_id, run |-> run]
           /\ graphs' = IF run.result.ok THEN graphs ELSE Remove(graphs, graph_id)
    /\ prev' = IF eret.op = "execute_graph" THEN Summary(eret) ELSE NoCall
    /\ UNCHANGED <<graph, ret, blocks, engines, ffi>>

ExecuteGraph(graph_id) ==
    /\ \E iter \in IterOrders(graphs, graph_id) :
         eret' = [op |-> "execute_graph", arg |-> graph_id,
                  run |-> execute_graph(blocks, graphs, graph_id, iter)]
    /\ prev' = IF eret.op = "execute_graph" THEN Summary(eret) ELSE NoCall
    /\ UNCHANGED <<graph, ret, blocks, graphs, engines, ffi>>

\* Engine::execute on a Graph value of the caller's
ExecuteDirect(g) ==
    /\ \E iter \in Orders(DOMAIN g.nodes) :
         eret' = [op |-> "execute", arg |-> g, run |-> execute(blocks, g, iter)]
    /\ prev' = NoCall
    /\ UNCHANGED <<graph, ret, blocks, graphs, engines, ffi>>

\* Engine::list_graphs, as a set: the order of the keys is not fixed
list_graphs == DOMAIN graphs

\* Engine::list_blocks, as a set
list_blocks == DOMAIN blocks

NextEngine ==
    \/ \E block \in RegisterInputs : RegisterBlock(block)
    \/ \E g \in EngineGraphs : LoadGraph(g)
    \/ \E graph_id \in GraphIds : ExecuteGraph(graph_id)
    \/ \E g \in DirectGraphs : ExecuteDirect(g)

SpecEngine == Init /\ [][NextEngine]_vars

(***************************************************************************)
(* SpecLoaded: one Engine that is handed a Graph value as circuit-ffi's    *)
(* circuit_load_graph hands it over, deserialized and not built through    *)
(* add_connection, and then executes it by id.                             *)
(***************************************************************************)
NextLoaded ==
    \/ LoadGraph(graph)
    \/ ExecuteGraph(graph.id)

SpecLoaded == InitExec /\ [][NextLoaded]_vars

\* C25: for every Graph that load_graph accepts, one deserialized with a
\* connection naming a node the graph does not hold included, execute_graph
\* returns a result or an error and never panics.
C25_NoPanic ==
    (eret.op = "execute_graph" /\ ~ eret.run.result.ok)
        => eret.run.result.kind # "panic"

(***************************************************************************)
(* SpecValidate: one Engine whose registry holds a block with a validate   *)
(* of its own, and a Graph with nodes of that block, loaded and executed.  *)
(***************************************************************************)
Checked(id, config) == Node(id, "test.checked", config)

\* the configs given to the checked block: two its validate accepts, two it
\* rejects though execute can run on them, one on which execute fails too
CheckedConfigs ==
    {[value |-> VFloat(10)], [value |-> VFloat(0)],
     [value |-> VInt(10)], [value |-> VString("ten")], EmptyMap}

ValidateGraphs ==
    {[id |-> "g1", nodes |-> NodeMap({a, b} \cup c), connections |-> connections] :
        a \in {Checked("n1", config) : config \in CheckedConfigs},
        b \in {Checked("n2", config) : config \in CheckedConfigs} \cup {Constant("n2", 0)},
        c \in {{}, {Adder("n3")}, {Divider("n3")}},
        connections \in {<<>>, BothPorts}}

ValidateRegistries ==
    {RegistryOf(BlockImpls \cup {CheckedConstant}), RegistryOf({ConstantBlock, CheckedConstant})}

InitValidate ==
    /\ graph \in {g \in ValidateGraphs : EndpointsExist(g)}
    /\ ret = [op |-> "new", arg |-> "g1", result |-> Ok]
    /\ blocks \in ValidateRegistries
    /\ graphs = EmptyMap
    /\ eret = NoCall
    /\ prev = NoCall
    /\ engines = NewEngines
    /\ ffi = FfiInit

NextValidate ==
    \/ LoadGraph(graph)
    \/ ExecuteGraph(graph.id)
    \/ ExecuteDirect(graph)

SpecValidate == InitValidate /\ [][NextValidate]_vars

\* the nodes of g whose config their block's validate would reject
Rejected(registry, g) ==
    {n \in DOMAIN g.nodes :
        /\ g.nodes[n].block_type \in DOMAIN registry
        /\ ~ Block_validate(registry[g.nodes[n].block_type], g.nodes[n].config).ok}

\* C38: load_graph, execute_graph and execute never invoke a block's
\* validate: a graph with a node config that validate would reject loads
\* whenever its block types are registered, and when it is executed every
\* invoked block returns what its execute returns on the node's inputs and
\* config, the run failing only where an execute fails.
C38_ValidateNotInvoked ==
    /\ eret.op = "load_graph"
         => /\ eret.result.ok <=> UnregisteredNodes(blocks, graph) = {}
            /\ eret.result.ok => graphs[graph.id] = graph
    /\ (eret.op \in {"execute_graph", "execute"} /\ eret.run.order # <<>>)
         => /\ \A j \in DOMAIN Trace :
                 LET node == graph.nodes[Trace[j].node] IN
                 Trace[j].result =
                    Block_execute(blocks[node.block_type],
                                  BlockContext(Trace[j].inputs, node.config))
            /\ eret.run.result.ok
                 <=> /\ \A n \in DOMAIN graph.nodes : graph.nodes[n].block_type \in DOMAIN blocks
                     /\ \A j \in DOMAIN Trace : Trace[j].result.ok

\* C38 witness: a graph with a node whose config validate would reject was
\* loaded and then executed by id, and the run succeeded with that node's
\* output in the result.
C38_Witness ==
    /\ eret.op = "execute_graph"
    /\ graph.id \in list_graphs
    /\ eret.run.result.ok
    /\ \E n \in Rejected(blocks, graph) : n \in DOMAIN eret.run.result.outputs
    /\ Cardinality(DOMAIN graph.nodes) = 3

(***************************************************************************)
(* Claims about the Engine's tables (checked under SpecEngine)             *)
(***************************************************************************)
\* C7: load_graph of a graph with a node whose block_type is not registered
\* returns an error and leaves the graph table as it was: the id does not
\* newly appear in list_graphs and a graph loaded earlier under that id is
\* still the one stored.
C7_LoadAllOrNothing ==
    [][\A g \in EngineGraphs :
          ( /\ eret'.op = "load_graph"
            /\ eret'.arg = g.id
            /\ UnregisteredNodes(blocks, g) # {}
            /\ LoadGraph(g) )
          => /\ ~ eret'.result.ok
             /\ eret'.result.kind = "Graph"
             /\ list_graphs' = list_graphs
             /\ graphs' = graphs
             /\ blocks' = blocks]_vars

\* C7 witness: a load was refused for an id under which an earlier graph is
\* stored, while another id is not in the table.
C7_Witness ==
    /\ eret.op = "load_graph"
    /\ ~ eret.result.ok
    /\ eret.arg \in list_graphs
    /\ list_graphs # GraphIds

\* C8: two execute_graph calls on the same graph id with no engine change
\* between them that both succeed return the same node-id to outputs
\* mapping, whatever order the scheduler took.
C8_Deterministic ==
    ( /\ eret.op = "execute_graph"
      /\ prev.op = "execute_graph"
      /\ eret.arg = prev.arg
      /\ eret.run.result.ok
      /\ prev.result.ok )
    => eret.run.result.outputs = prev.result.outputs

\* C27: after any sequence of register_block and load_graph calls every
\* node of every stored graph has a block_type that is in the registry, and
\* execute_graph never fails because a block type was not found.
C27_LoadedBlocksRegistered ==
    /\ \A id \in list_graphs : \A n \in DOMAIN graphs[id].nodes :
         graphs[id].nodes[n].block_type \in list_blocks
    /\ (eret.op = "execute_graph" /\ ~ eret.run.result.ok
            /\ eret.run.result.kind = "Graph")
         => eret.run.result.msg[1] # "Block type '"

\* C27 witness: a stored three-node graph was executed by id to its last
\* node on an engine that lacks one of the catalog blocks.
C27_Witness ==
    /\ eret.op = "execute_graph"
    /\ eret.arg \in list_graphs
    /\ Len(eret.run.trace) = 3
    /\ "math.add" \notin list_blocks

\* C29: execute_graph and execute, whether they succeed or fail, leave the
\* graph table, the registry and the executed graph as they were; after a
\* failed execution every loaded graph executes, under every scheduling
\* order, as it would have had the failed call never been made.
C29_ExecutionReadOnly ==
    [][eret'.op \in {"execute_graph", "execute"}
         => /\ graphs' = graphs
            /\ blocks' = blocks
            /\ list_graphs' = list_graphs
            /\ (eret'.op = "execute_graph" /\ eret'.arg \in list_graphs)
                 => graphs'[eret'.arg] = graphs[eret'.arg]
            /\ ~ eret'.run.result.ok
                 => \A id \in list_graphs : \A iter \in IterOrders(graphs, id) :
                      execute_graph(blocks', graphs', id, iter)
                         = execute_graph(blocks, graphs, id, iter)]_vars

\* C29 witness: an execution of a loaded graph failed in a block while
\* another graph is loaded too, and both are still in the table.
C29_Witness ==
    /\ eret.op = "execute_graph"
    /\ ~ eret.run.result.ok
    /\ eret.run.result.kind = "BlockExecution"
    /\ list_graphs = {"g1", "g2"}
    /\ graphs[eret.arg].nodes = TwoIntoDivider

\* C32: register_block of a new block type after graphs have been loaded
\* succeeds and leaves the graph table as it was, so a graph whose load
\* failed for a missing block type is still absent from list_graphs once
\* the type is registered; a load_graph call succeeds, and stores the
\* graph, exactly when every block type of the graph is registered by then.
C32_RegisterAfterLoad ==
    [][/\ eret'.op = "register_block"
            => /\ graphs' = graphs
               /\ list_graphs' = list_graphs
               /\ (graphs # EmptyMap /\ eret'.arg.id \notin list_blocks)
                    => eret'.result.ok /\ eret'.arg.id \in list_blocks'
       /\ \A g \in EngineGraphs :
            LoadGraph(g)
                => /\ eret'.result.ok <=> UnregisteredNodes(blocks, g) = {}
                   /\ eret'.result.ok => g.id \in list_graphs' /\ graphs'[g.id] = g
                   /\ ~ eret'.result.ok => graphs' = graphs]_vars

\* C32 witness: with one graph loaded, the block type that a graph not in
\* the table needs has just been registered; the graph is still absent and
\* a load of it would now pass the validation.
C32_Witness ==
    /\ eret.op = "register_block"
    /\ eret.result.ok
    /\ list_graphs = {"g1"}
    /\ \E g \in EngineGraphs :
         /\ g.id = "g2"
         /\ \E n \in DOMAIN g.nodes : g.nodes[n].block_type = eret.arg.id
         /\ UnregisteredNodes(blocks, g) = {}

\* C26: two execute_graph calls on the same graph id with no engine change
\* between them have the same outcome also when execution fails: if the
\* first fails, the second fails with the same error, naming the same node,
\* even when two nodes with no path between them would each fail.
C26_SameFailure ==
    ( /\ eret.op = "execute_graph"
      /\ prev.op = "execute_graph"
      /\ eret.arg = prev.arg
      /\ ~ prev.result.ok )
    => eret.run.result = prev.result

\* C8 witness: two successful runs of one graph that scheduled its nodes in
\* different orders.
C8_Witness ==
    /\ eret.op = "execute_graph"
    /\ prev.op = "execute_graph"
    /\ eret.arg = prev.arg
    /\ eret.run.result.ok
    /\ prev.result.ok
    /\ eret.run.order # prev.order
    /\ Len(graphs[eret.arg].connections) = 3

\* C14: register_block with a block whose metadata id is already registered
\* fails with the already-registered error and leaves the registry as it
\* was, the block registered first still bound to the id; with a new id it
\* adds exactly that one entry.
C14_RegisterBlockFrame ==
    [][eret'.op = "register_block" =>
         /\ graphs' = graphs
         /\ IF eret'.arg.id \in DOMAIN blocks
            THEN /\ ~ eret'.result.ok
                 /\ eret'.result.kind = "Graph"
                 /\ eret'.result.msg =
                      <<"Block type '", eret'.arg.id, "' is already registered">>
                 /\ blocks' = blocks
            ELSE /\ eret'.result.ok
                 /\ DOMAIN blocks' = DOMAIN blocks \cup {eret'.arg.id}
                 /\ blocks'[eret'.arg.id] = eret'.arg
                 /\ \A id \in DOMAIN blocks : blocks'[id] = blocks[id]]_vars

\* C14 witness: a second allocation of the add block was refused while the
\* first is the one bound to math.add.
C14_Witness ==
    /\ eret.op = "register_block"
    /\ ~ eret.result.ok
    /\ eret.arg = SecondArc(AddBlock)
    /\ blocks["math.add"] = AddBlock

\* C15: over any sequence of register_block, load_graph, execute_graph and
\* execute calls, list_blocks never loses an id and no id is rebound to
\* another block; load_graph, execute_graph and execute leave the registry
\* as it was.
C15_RegistryOnlyGrows ==
    [][/\ list_blocks \subseteq list_blocks'
       /\ \A id \in list_blocks : blocks'[id] = blocks[id]
       /\ eret'.op \in {"load_graph", "execute_graph", "execute"} => blocks' = blocks]_vars

\* C15 witness: with the second allocation of the add block bound and a
\* graph loaded, an execute call on a caller's graph ran a block.
C15_Witness ==
    /\ eret.op = "execute"
    /\ eret.run.trace # <<>>
    /\ "math.add" \in list_blocks
    /\ blocks["math.add"] = SecondArc(AddBlock)
    /\ list_graphs # {}

\* C16: a successful load_graph stores the graph under its id in place of
\* any graph stored there before and leaves the graphs under other ids as
\* they were; list_graphs then holds the id once, and execute_graph on an id
\* runs the graph stored under it, which is the one loaded last.
C16_LoadReplaces ==
    /\ [][\A g \in EngineGraphs :
             ( /\ eret'.op = "load_graph"
               /\ eret'.arg = g.id
               /\ eret'.result.ok
               /\ LoadGraph(g) )
             => /\ graphs'[g.id] = g
                /\ list_graphs' = list_graphs \cup {g.id}
                /\ \A id \in list_graphs \ {g.id} : graphs'[id] = graphs[id]
                /\ \A keys \in Orders(list_graphs') :
                     Cardinality({k \in DOMAIN keys : keys[k] = g.id}) = 1]_vars
    /\ [](\A id \in list_graphs : \A iter \in Orders(DOMAIN graphs[id].nodes) :
            execute_graph(blocks, graphs, id, iter) = execute(blocks, graphs[id], iter))

\* C16 witness: both ids are loaded, and the graph now under g1 is one whose
\* load succeeds only with blocks that an earlier g1 graph did not need.
C16_Witness ==
    /\ eret.op = "load_graph"
    /\ eret.result.ok
    /\ eret.arg = "g1"
    /\ list_graphs = GraphIds
    /\ graphs["g1"].nodes = TwoIntoAdder
    /\ graphs["g1"].connections = FedTwiceLate

\* C17: execute_graph with an id that is not in the graph table returns the
\* graph-not-found error and invokes no block.
C17_GraphNotFound ==
    (eret.op = "execute_graph" /\ eret.arg \notin list_graphs) =>
        /\ ~ eret.run.result.ok
        /\ eret.run.result.kind = "Graph"
        /\ eret.run.result.msg = <<"Graph '", eret.arg, "' not found">>
        /\ eret.run.trace = <<>>

\* C17 witness: the id is not in the table while the other id is, with all
\* the catalog's blocks registered.
C17_Witness ==
    /\ eret.op = "execute_graph"
    /\ eret.arg \notin list_graphs
    /\ list_graphs # {}
    /\ Cardinality(list_blocks) = 3

InstanceBlocks == {ConstantBlock, AddBlock}

InstanceGraphs ==
    {g \in EngineGraphs : g.connections = <<>> /\ Cardinality(DOMAIN g.nodes) <= 1}

\* instance.register_block(block)
RegisterBlockOn(instance, block) ==
    /\ LET self == FieldsOf(instance)
           r == register_block(engines[self].blocks, block)
       IN  /\ engines' = [engines EXCEPT ![self].blocks = r.blocks]
           /\ eret' = [op |-> "register_block", self |-> instance,
                       arg |-> block, result |-> r.result]
    /\ UNCHANGED <<graph, ret, blocks, graphs, prev, ffi>>

\* instance.load_graph(g)
LoadGraphOn(instance, g) ==
    /\ LET self == FieldsOf(instance) IN
       \E first_bad \in IF UnregisteredNodes(engines[self].blocks, g) = {} THEN {"none"}
                        ELSE UnregisteredNodes(engines[self].blocks, g) :
         LET r == load_graph(engines[self].blocks, engines[self].graphs, g, first_bad) IN
           /\ engines' = [engines EXCEPT ![self].graphs = r.graphs]
           /\ eret' = [op |-> "load_graph", self |-> instance,
                       arg |-> g.id, result |-> r.result]
    /\ UNCHANGED <<graph, ret, blocks, graphs, prev, ffi>>

\* instance.list_blocks(), instance.list_graphs(), as sets
list_blocks_of(instance) == DOMAIN engines[FieldsOf(instance)].blocks

list_graphs_of(instance) == DOMAIN engines[FieldsOf(instance)].graphs

NextEngines ==
    \/ \E instance \in Instances, block \in InstanceBlocks : RegisterBlockOn(instance, block)
    \/ \E instance \in Instances, g \in InstanceGraphs : LoadGraphOn(instance, g)

SpecEngines == Init /\ [][NextEngines]_vars

\* C19: two Engine instances share no state: a register_block or load_graph
\* call on one leaves the other's list_blocks and list_graphs as they were.
C19_InstancesIndependent ==
    [][\A other \in Instances :
          eret'.self # other =>
             /\ list_blocks_of(other)' = list_blocks_of(other)
             /\ list_graphs_of(other)' = list_graphs_of(other)]_vars

\* C19 witness: a graph was just loaded on engine1 while engine2 has none
\* and the two registries hold different blocks.
C19_Witness ==
    /\ eret.op = "load_graph"
    /\ eret.self = "engine1"
    /\ eret.result.ok
    /\ list_graphs_of("engine1") = {"g1"}
    /\ list_graphs_of("engine2") = {}
    /\ list_blocks_of("engine1") = {"core.constant"}
    /\ list_blocks_of("engine2") = {"math.add"}

(***************************************************************************)
(* SpecValue: Value's accessors and its serialised form                    *)
(***************************************************************************)
Scalars ==
    {VNull, VBool(TRUE), VBool(FALSE), VInt(-1), VInt(0), VInt(42),
     VFloatOf(Ratio(1, 2)), VFloat(42), VFloatOf(NaN), VFloatOf(Infinity),
     VFloatOf(NegInfinity), VString(""), VString("hello")}

\* the values an Array or an Object holds: a scalar or an empty container
Items == Scalars \cup {VArray(<<>>), VObject(EmptyMap)}

ObjectKeys == {"a", "b"}

Values ==
    Scalars
    \cup {VArray(arr) : arr \in SeqsUpTo(Items, MaxItems)}
    \cup {VBytes(bytes) : bytes \in SeqsUpTo({0, 255}, MaxItems)}
    \cup UNION {{VObject(obj) : obj \in [keys -> Items]} :
                  keys \in {K \in SUBSET ObjectKeys : Cardinality(K) <= MaxItems}}

\* one action for each call on a Value; ret keeps the call and what it returned
AsBool(v) ==
    /\ ret' = [op |-> "as_bool", arg |-> v, result |-> as_bool(v)]
    /\ UNCHANGED graph
    /\ NoEngineChange

AsInt(v) ==
    /\ ret' = [op |-> "as_int", arg |-> v, result |-> as_int(v)]
    /\ UNCHANGED graph
    /\ NoEngineChange

AsFloat(v) ==
    /\ ret' = [op |-> "as_float", arg |-> v, result |-> as_float(v)]
    /\ UNCHANGED graph
    /\ NoEngineChange

AsStr(v) ==
    /\ ret' = [op |-> "as_str", arg |-> v, result |-> as_str(v)]
    /\ UNCHANGED graph
    /\ NoEngineChange

AsArray(v) ==
    /\ ret' = [op |-> "as_array", arg |-> v, result |-> as_array(v)]
    /\ UNCHANGED graph
    /\ NoEngineChange

AsObject(v) ==
    /\ ret' = [op |-> "as_object", arg |-> v, result |-> as_object(v)]
    /\ UNCHANGED graph
    /\ NoEngineChange

RoundTrip(v) ==
    /\ ret' = [op |-> "round_trip", arg |-> v, result |-> round_trip(v)]
    /\ UNCHANGED graph
    /\ NoEngineChange

NextValue ==
    \/ \E v \in Values : AsBool(v)
    \/ \E v \in Values : AsInt(v)
    \/ \E v \in Values : AsFloat(v)
    \/ \E v \in Values : AsStr(v)
    \/ \E v \in Values : AsArray(v)
    \/ \E v \in Values : AsObject(v)
    \/ \E v \in Values : RoundTrip(v)

SpecValue == Init /\ [][NextValue]_vars

\* the variants on which an accessor returns a value
Accepts(op) ==
    CASE op = "as_float" -> {"Float", "Int"}
      [] op = "as_int" -> {"Int"}
      [] op = "as_bool" -> {"Bool"}
      [] op = "as_str" -> {"String"}
      [] op = "as_array" -> {"Array"}
      [] op = "as_object" -> {"Object"}

Accessors == {"as_float", "as_int", "as_bool", "as_str", "as_array", "as_object"}

\* the payload of a value that has one
Payload(v) ==
    CASE v.type = "Bool" -> v.bool
      [] v.type = "Int" -> v.int
      [] v.type = "Float" -> v.float
      [] v.type = "String" -> v.string
      [] v.type = "Array" -> v.array
      [] v.type = "Object" -> v.object
      [] v.type = "Bytes" -> v.bytes

\* C21: as_float returns a value exactly on Float and Int (the Int widened),
\* as_int exactly on Int, as_bool, as_str, as_array and as_object exactly on
\* their own variant; on any other variant each returns the empty result.
C21_Accessors ==
    ret.op \in Accessors =>
        /\ ret.result.some <=> ret.arg.type \in Accepts(ret.op)
        /\ ret.result.some =>
             ret.result.value = IF ret.op = "as_float" /\ ret.arg.type = "Int"
                                THEN <<ret.arg.int, 1>>
                                ELSE Payload(ret.arg)
        /\ ~ ret.result.some => ret.result = None

\* C21 witness: as_int returned the empty result on a Float that holds a
\* whole number.
C21_Witness ==
    /\ ret.op = "as_int"
    /\ ret.arg = VFloat(42)
    /\ ret.result = None

\* C22: serialising a Value to its tagged form and deserialising it gives
\* back a Value equal to the original with the same variant tag.
C22_RoundTrip ==
    ret.op = "round_trip" =>
        /\ ret.result.ok
        /\ ret.result.value.type = ret.arg.type
        /\ ValueEq(ret.result.value, ret.arg)

(***************************************************************************)
(* SpecFfi: circuit-ffi/src/lib.rs.  Each thread runs one exported         *)
(* function at a time, a statement per step; lock() is a step that waits   *)
(* until the mutex is free.  Engine::new registers no block and the        *)
(* library exports no registration, so every engine's registry is empty.   *)
(***************************************************************************)
\* serde_json::to_string of a Graph (name and description carry no
\* behaviour and are written as the id and null)
ConnectionJson(c) ==
    JObject([from_node |-> JString(c.from_node), from_port |-> JString(c.from_port),
             to_node |-> JString(c.to_node), to_port |-> JString(c.to_port)])

NodeJson(n) ==
    JObject([id |-> JString(n.id), block_type |-> JString(n.block_type),
             config |-> JObject([k \in DOMAIN n.config |-> Serialize(n.config[k])]),
             position |-> JNull])

GraphJson(g) ==
    JObject([id |-> JString(g.id), name |-> JString(g.id), description |-> JNull,
             nodes |-> JObject([k \in DOMAIN g.nodes |-> NodeJson(g.nodes[k])]),
             connections |->
                 JArray([i \in DOMAIN g.connections |-> ConnectionJson(g.connections[i])])])

\* j is an object holding a string under each of the fields
HasStrings(j, fields) ==
    /\ j.json = "object"
    /\ fields \subseteq DOMAIN j.members
    /\ \A f \in fields : j.members[f].json = "string"

\* the derived Deserialize of Connection, Node and Graph
ParseConnection(j) ==
    IF ~ HasStrings(j, {"from_node", "from_port", "to_node", "to_port"})
    THEN ParseError("invalid connection")
    ELSE Parsed(Connection(j.members["from_node"].string, j.members["from_port"].string,
                           j.members["to_node"].string, j.members["to_port"].string))

ParseNode(j) ==
    IF ~ HasStrings(j, {"id", "block_type"}) THEN ParseError("invalid node")
    ELSE IF "config" \notin DOMAIN j.members THEN ParseError("missing field config")
    ELSE LET config == j.members["config"] IN
    IF config.json # "object" THEN ParseError("invalid type, expected a map")
    ELSE IF \E k \in DOMAIN config.members : ~ Deserialize(config.members[k]).ok
    THEN ParseError("invalid value")
    ELSE Parsed(Node(j.members["id"].string, j.members["block_type"].string,
                     [k \in DOMAIN config.members |-> Deserialize(config.members[k]).value]))

ParseGraph(j) ==
    IF ~ HasStrings(j, {"id", "name"}) THEN ParseError("invalid type, expected struct Graph")
    ELSE IF ~ ({"nodes", "connections"} \subseteq DOMAIN j.members)
    THEN ParseError("missing field")
    ELSE LET nodes == j.members["nodes"]
             connections == j.members["connections"]
         IN
    IF nodes.json # "object" \/ connections.json # "array"
    THEN ParseError("invalid type")
    ELSE IF \/ \E k \in DOMAIN nodes.members : ~ ParseNode(nodes.members[k]).ok
            \/ \E i \in DOMAIN connections.items : ~ ParseConnection(connections.items[i]).ok
    THEN ParseError("invalid type")
    ELSE Parsed([id |-> j.members["id"].string,
                 nodes |-> [k \in DOMAIN nodes.members |-> ParseNode(nodes.members[k]).value],
                 connections |-> [i \in DOMAIN connections.items |->
                                     ParseConnection(connections.items[i]).value]])

\* serde_json::to_string of the node-id to outputs mapping
ResultsJson(outputs) ==
    JObject([n \in DOMAIN outputs |->
                JObject([p \in DOMAIN outputs[n] |-> Serialize(outputs[n][p])])])

\* The documents the threads pass to circuit_load_graph: a graph with no
\* node, one with no node and a connection, one with a node (whose block
\* type no engine has), all under id g1, and valid JSON that is no graph.
FfiGraphs ==
    {NewGraph("g1"),
     [id |-> "g1", nodes |-> EmptyMap,
      connections |-> <<Connection("n1", "value", "n3", "a")>>],
     [id |-> "g1", nodes |-> NodeMap({Node("n1", "core.constant", EmptyMap)}),
      connections |-> <<>>]}

FfiDocuments == {GraphJson(g) : g \in FfiGraphs} \cup {JString("g1")}

\* the handles and graph ids the threads pass
Handles == 0..(MaxCreates - 1)

FfiGraphIds == {"g1", "g2"}

Me(t) == ffi.threads[t]

At(t, pc) == ~ ffi.aborted /\ Me(t).pc = pc

NoCoreChange == UNCHANGED <<graph, ret, blocks, graphs, eret, prev, engines>>

\* A panic inside an extern "C" function: the process aborts, or the thread
\* unwinds, which drops its guard on the engine (poisoning the mutex) and
\* its Arc, and the call never returns a value.
Unwound(f, t, call) ==
    LET me == f.threads[t]
        released == IF f.heap[me.engine_arc].owner = t
                    THEN [f.heap EXCEPT ![me.engine_arc].owner = Free,
                                        ![me.engine_arc].poisoned = TRUE]
                    ELSE f.heap
    IN  [f EXCEPT !.heap = ArcDrop(released, me.engine_arc),
                  !.threads[t] = Idle([call |-> call, handle |-> me.handle,
                                       status |-> "panic"])]

PanicOutcomes(f, t, call) == {[f EXCEPT !.aborted = TRUE], Unwound(f, t, call)}

\* circuit_engine_create, line 16
BeginCreate(t) ==
    /\ At(t, "idle")
    /\ ffi.allocs < MaxCreates
    /\ ffi' = [ffi EXCEPT !.allocs = @ + 1,
                          !.heap = Put(@, ffi.allocs + 1, NewArc),
                          !.threads[t] = [Idle(NoReturn) EXCEPT
                                             !.pc = "create_lock_id",
                                             !.engine_arc = ffi.allocs + 1]]
    /\ NoCoreChange

\* line 17: NEXT_ENGINE_ID.lock()
CreateLockId(t) ==
    /\ At(t, "create_lock_id")
    /\ ffi.locks.NEXT_ENGINE_ID = Free
    /\ ffi' = [ffi EXCEPT !.locks.NEXT_ENGINE_ID = t,
                          !.threads[t].pc = "create_take_id"]
    /\ NoCoreChange

\* create reading the counter and leaving it as it is
CreateTakeIdNoIncrement(t) ==
    /\ At(t, "create_take_id")
    /\ ffi' = [ffi EXCEPT !.threads[t].id = ffi.NEXT_ENGINE_ID,
                          !.threads[t].pc = "create_lock_engines"]
    /\ NoCoreChange

\* lines 18-19
CreateTakeId(t) ==
    /\ At(t, "create_take_id")
    /\ ffi' = [ffi EXCEPT !.NEXT_ENGINE_ID = @ + 1,
                          !.threads[t].id = ffi.NEXT_ENGINE_ID,
                          !.threads[t].pc = "create_lock_engines"]
    /\ NoCoreChange

\* line 21: ENGINES.lock()
CreateLockEngines(t) ==
    /\ At(t, "create_lock_engines")
    /\ ffi.locks.ENGINES = Free
    /\ ffi' = [ffi EXCEPT !.locks.ENGINES = t,
                          !.threads[t].pc = "create_insert"]
    /\ NoCoreChange

\* line 21: insert(id, engine), then the guard goes at the end of the
\* statement; an Arc the insert replaced would be dropped with it
CreateInsert(t) ==
    /\ At(t, "create_insert")
    /\ LET me == Me(t) IN
       ffi' = [ffi EXCEPT !.ENGINES = Put(@, me.id, me.engine_arc),
                          !.heap = IF me.id \in DOMAIN ffi.ENGINES
                                   THEN ArcDrop(@, ffi.ENGINES[me.id]) ELSE @,
                          !.locks.ENGINES = Free,
                          !.threads[t].pc = "create_return"]
    /\ NoCoreChange

\* lines 22-23: id is returned and the guard on NEXT_ENGINE_ID goes
CreateReturn(t) ==
    /\ At(t, "create_return")
    /\ ffi' = [ffi EXCEPT !.locks.NEXT_ENGINE_ID = Free,
                          !.returned = @ \cup {Me(t).id},
                          !.threads[t] = Idle([call |-> "create", handle |-> Me(t).id,
                                               status |-> "ok"])]
    /\ NoCoreChange

\* circuit_engine_destroy(handle)
BeginDestroy(t, handle) ==
    /\ At(t, "idle")
    /\ ffi' = [ffi EXCEPT !.threads[t] = [Idle(NoReturn) EXCEPT
                                             !.pc = "destroy_lock_engines",
                                             !.handle = handle,
                                             !.known = handle \in ffi.returned]]
    /\ NoCoreChange

\* line 28: ENGINES.lock()
DestroyLockEngines(t) ==
    /\ At(t, "destroy_lock_engines")
    /\ ffi.locks.ENGINES = Free
    /\ ffi' = [ffi EXCEPT !.locks.ENGINES = t,
                          !.threads[t].pc = "destroy_remove"]
    /\ NoCoreChange

\* line 28: remove(&handle); the removed Arc and then the guard are dropped
\* at the end of the statement, and the function returns
DestroyRemove(t) ==
    /\ At(t, "destroy_remove")
    /\ LET me == Me(t) IN
       ffi' = [ffi EXCEPT !.ENGINES = Remove(@, me.handle),
                          !.heap = IF me.handle \in DOMAIN ffi.ENGINES
                                   THEN ArcDrop(@, ffi.ENGINES[me.handle]) ELSE @,
                          !.locks.ENGINES = Free,
                          !.destroyed = IF me.known THEN @ \cup {me.handle} ELSE @,
                          !.threads[t] = Idle([call |-> "destroy", handle |-> me.handle,
                                               status |-> "ok"])]
    /\ NoCoreChange

\* circuit_load_graph(handle, json, error_out), json a valid C string
BeginLoad(t, handle, json) ==
    /\ At(t, "idle")
    /\ ffi' = [ffi EXCEPT !.threads[t] = [Idle(NoReturn) EXCEPT
                                             !.pc = "load_lock_engines",
                                             !.handle = handle,
                                             !.json = json]]
    /\ NoCoreChange

\* line 50: ENGINES.lock()
LoadLockEngines(t) ==
    /\ At(t, "load_lock_engines")
    /\ ffi.locks.ENGINES = Free
    /\ ffi' = [ffi EXCEPT !.locks.ENGINES = t,
                          !.threads[t].pc = "load_lookup"]
    /\ NoCoreChange

\* the lookup of circuit_load_graph keeping its guard on ENGINES when the
\* handle is found
LoadLookupKeepGuard(t) ==
    /\ At(t, "load_lookup")
    /\ LET me == Me(t) IN
       ffi' = IF me.handle \in DOMAIN ffi.ENGINES
              THEN [ffi EXCEPT !.heap = ArcClone(@, ffi.ENGINES[me.handle]),
                               !.threads[t].engine_arc = ffi.ENGINES[me.handle],
                               !.threads[t].pc = "load_parse"]
              ELSE [ffi EXCEPT !.locks.ENGINES = Free,
                               !.threads[t] =
                                   Idle([call |-> "load", handle |-> me.handle,
                                         status |-> "error",
                                         error |-> <<"Invalid engine handle">>])]
    /\ NoCoreChange

\* lines 51-58: the Arc is cloned, or the call ends with the invalid-handle
\* error; either way the guard on ENGINES goes
LoadLookup(t) ==
    /\ At(t, "load_lookup")
    /\ LET me == Me(t) IN
       ffi' = IF me.handle \in DOMAIN ffi.ENGINES
              THEN [ffi EXCEPT !.heap = ArcClone(@, ffi.ENGINES[me.handle]),
                               !.locks.ENGINES = Free,
                               !.threads[t].engine_arc = ffi.ENGINES[me.handle],
                               !.threads[t].pc = "load_parse"]
              ELSE [ffi EXCEPT !.locks.ENGINES = Free,
                               !.threads[t] =
                                   Idle([call |-> "load", handle |-> me.handle,
                                         status |-> "error",
                                         error |-> <<"Invalid engine handle">>])]
    /\ NoCoreChange

\* lines 60-66: serde_json::from_str
LoadParse(t) ==
    /\ At(t, "load_parse")
    /\ LET me == Me(t)
           parsed == ParseGraph(me.json)
       IN
       ffi' = IF parsed.ok
              THEN [ffi EXCEPT !.threads[t].parsed = parsed.value,
                               !.threads[t].pc = "load_lock_engine"]
              ELSE [ffi EXCEPT !.heap = ArcDrop(@, me.engine_arc),
                               !.threads[t] =
                                   Idle([call |-> "load", handle |-> me.handle,
                                         status |-> "error",
                                         error |-> <<"Failed to parse graph: ", parsed.error>>])]
    /\ NoCoreChange

\* the load going on without waiting for the engine's mutex
LoadLockEngineNoWait(t) ==
    /\ At(t, "load_lock_engine")
    /\ IF ffi.heap[Me(t).engine_arc].poisoned
       THEN ffi' \in PanicOutcomes(ffi, t, "load")
       ELSE ffi' = [ffi EXCEPT !.heap[Me(t).engine_arc].owner = t,
                               !.threads[t].pc = "load_validate"]
    /\ NoCoreChange

\* line 69: engine_arc.lock().unwrap(), which panics on a poisoned mutex
LoadLockEngine(t) ==
    /\ At(t, "load_lock_engine")
    /\ ffi.heap[Me(t).engine_arc].owner = Free
    /\ IF ffi.heap[Me(t).engine_arc].poisoned
       THEN ffi' \in PanicOutcomes(ffi, t, "load")
       ELSE ffi' = [ffi EXCEPT !.heap[Me(t).engine_arc].owner = t,
                               !.threads[t].pc = "load_validate"]
    /\ NoCoreChange

\* line 70, engine.rs 46-53: the validation loop of load_graph
LoadValidate(t) ==
    /\ At(t, "load_validate")
    /\ LET me == Me(t)
           engine == ffi.heap[me.engine_arc]
       IN  \E first_bad \in IF UnregisteredNodes(engine.blocks, me.parsed) = {}
                            THEN {"none"}
                            ELSE UnregisteredNodes(engine.blocks, me.parsed) :
             ffi' = [ffi EXCEPT
                        !.threads[t].first_bad = first_bad,
                        !.threads[t].result =
                            load_graph(engine.blocks, engine.graphs, me.parsed, first_bad).result,
                        !.threads[t].pc = "load_insert"]
    /\ NoCoreChange

\* line 70, engine.rs 55-56, and line 71: the insert of load_graph, and
\* the guard on the engine goes
LoadInsert(t) ==
    /\ At(t, "load_insert")
    /\ LET me == Me(t)
           engine == ffi.heap[me.engine_arc]
       IN  ffi' = [ffi EXCEPT
                      !.heap[me.engine_arc].graphs =
                          load_graph(engine.blocks, engine.graphs, me.parsed, me.first_bad).graphs,
                      !.heap[me.engine_arc].owner = Free,
                      !.threads[t].pc = "load_return"]
    /\ NoCoreChange

\* lines 73-80: 0 or -1 is returned and engine_arc is dropped
LoadReturn(t) ==
    /\ At(t, "load_return")
    /\ LET me == Me(t) IN
       ffi' = [ffi EXCEPT
                  !.heap = ArcDrop(@, me.engine_arc),
                  !.threads[t] =
                      IF me.result.ok
                      THEN Idle([call |-> "load", handle |-> me.handle, status |-> "ok"])
                      ELSE Idle([call |-> "load", handle |-> me.handle, status |-> "error",
                                 error |-> <<"Failed to load graph: ">> \o Display(me.result)])]
    /\ NoCoreChange

\* circuit_execute_graph(handle, graph_id, error_out), graph_id a valid C string
BeginExecute(t, handle, graph_id) ==
    /\ At(t, "idle")
    /\ ffi' = [ffi EXCEPT !.threads[t] = [Idle(NoReturn) EXCEPT
                                             !.pc = "execute_lock_engines",
                                             !.handle = handle,
                                             !.graph_id = graph_id]]
    /\ NoCoreChange

\* line 101: ENGINES.lock()
ExecuteLockEngines(t) ==
    /\ At(t, "execute_lock_engines")
    /\ ffi.locks.ENGINES = Free
    /\ ffi' = [ffi EXCEPT !.locks.ENGINES = t,
                          !.threads[t].pc = "execute_lookup"]
    /\ NoCoreChange

\* lines 102-109
ExecuteLookup(t) ==
    /\ At(t, "execute_lookup")
    /\ LET me == Me(t) IN
       ffi' = IF me.handle \in DOMAIN ffi.ENGINES
              THEN [ffi EXCEPT !.heap = ArcClone(@, ffi.ENGINES[me.handle]),
                               !.locks.ENGINES = Free,
                               !.threads[t].engine_arc = ffi.ENGINES[me.handle],
                               !.threads[t].pc = "execute_lock_engine"]
              ELSE [ffi EXCEPT !.locks.ENGINES = Free,
                               !.threads[t] =
                                   Idle([call |-> "execute", handle |-> me.handle,
                                         status |-> "error",
                                         error |-> <<"Invalid engine handle">>])]
    /\ NoCoreChange

\* line 112: engine_arc.lock().unwrap()
ExecuteLockEngine(t) ==
    /\ At(t, "execute_lock_engine")
    /\ ffi.heap[Me(t).engine_arc].owner = Free
    /\ IF ffi.heap[Me(t).engine_arc].poisoned
       THEN ffi' \in PanicOutcomes(ffi, t, "execute")
       ELSE ffi' = [ffi EXCEPT !.heap[Me(t).engine_arc].owner = t,
                               !.threads[t].pc = "execute_get"]
    /\ NoCoreChange

\* line 113, engine.rs 61-64: execute_graph finds the graph in the table;
\* seen is the table as the call finds it
ExecuteGet(t) ==
    /\ At(t, "execute_get")
    /\ ffi' = [ffi EXCEPT !.threads[t].seen = ffi.heap[Me(t).engine_arc].graphs,
                          !.threads[t].pc = "execute_run"]
    /\ NoCoreChange

\* line 113, engine.rs 66, and line 114: the graph is executed and the
\* guard on the engine goes
ExecuteRun(t) ==
    /\ At(t, "execute_run")
    /\ LET me == Me(t)
           engine == ffi.heap[me.engine_arc]
       IN  \E iter \in IterOrders(engine.graphs, me.graph_id) :
             LET run == execute_graph(engine.blocks, engine.graphs, me.graph_id, iter) IN
             IF ~ run.result.ok /\ run.result.kind = "panic"
             THEN ffi' \in PanicOutcomes(ffi, t, "execute")
             ELSE ffi' = [ffi EXCEPT !.heap[me.engine_arc].owner = Free,
                                     !.threads[t].result = run.result,
                                     !.threads[t].pc = "execute_return"]
    /\ NoCoreChange

\* lines 116-136: the results as JSON, or the error, and engine_arc is dropped
ExecuteReturn(t) ==
    /\ At(t, "execute_return")
    /\ LET me == Me(t) IN
       ffi' = [ffi EXCEPT
                  !.heap = ArcDrop(@, me.engine_arc),
                  !.threads[t] =
                      IF me.result.ok
                      THEN Idle([call |-> "execute", handle |-> me.handle, status |-> "ok",
                                 json |-> ResultsJson(me.result.outputs)])
                      ELSE Idle([call |-> "execute", handle |-> me.handle, status |-> "error",
                                 error |-> <<"Execution failed: ">> \o Display(me.result)])]
    /\ NoCoreChange

NextFfi ==
    \E t \in Threads :
        \/ BeginCreate(t)
        \/ CreateLockId(t)
        \/ CreateTakeId(t)
        \/ CreateLockEngines(t)
        \/ CreateInsert(t)
        \/ CreateReturn(t)
        \/ \E handle \in Handles : BeginDestroy(t, handle)
        \/ DestroyLockEngines(t)
        \/ DestroyRemove(t)
        \/ \E handle \in Handles : \E json \in FfiDocuments : BeginLoad(t, handle, json)
        \/ LoadLockEngines(t)
        \/ LoadLookup(t)
        \/ LoadParse(t)
        \/ LoadLockEngine(t)
        \/ LoadValidate(t)
        \/ LoadInsert(t)
        \/ LoadReturn(t)
        \/ \E handle \in Handles : \E graph_id \in FfiGraphIds :
              BeginExecute(t, handle, graph_id)
        \/ ExecuteLockEngines(t)
        \/ ExecuteLookup(t)
        \/ ExecuteLockEngine(t)
        \/ ExecuteGet(t)
        \/ ExecuteRun(t)
        \/ ExecuteReturn(t)

SpecFfi == Init /\ [][NextFfi]_vars

(***************************************************************************)
(* Claims about the exported functions (checked under SpecFfi)             *)
(***************************************************************************)
\* thread t is inside a call
InCall(t) == Me(t).pc # "idle"

\* the next statement of the call thread t is inside
Proceed(t) ==
    \/ CreateLockId(t) \/ CreateTakeId(t) \/ CreateLockEngines(t)
    \/ CreateInsert(t) \/ CreateReturn(t)
    \/ DestroyLockEngines(t) \/ DestroyRemove(t)
    \/ LoadLockEngines(t) \/ LoadLookup(t) \/ LoadParse(t) \/ LoadLockEngine(t)
    \/ LoadValidate(t) \/ LoadInsert(t) \/ LoadReturn(t)
    \/ ExecuteLockEngines(t) \/ ExecuteLookup(t) \/ ExecuteLockEngine(t)
    \/ ExecuteGet(t) \/ ExecuteRun(t) \/ ExecuteReturn(t)

\* the engines whose mutex thread t holds
EnginesHeld(t) == {a \in DOMAIN ffi.heap : ffi.heap[a].owner = t}

\* how many mutexes thread t holds
LocksHeld(t) ==
    (IF ffi.locks.NEXT_ENGINE_ID = t THEN 1 ELSE 0)
    + (IF ffi.locks.ENGINES = t THEN 1 ELSE 0)
    + Cardinality(EnginesHeld(t))

\* C33: no interleaving of create, destroy, load and execute calls
\* deadlocks: while the process runs and some thread is inside a call, a
\* thread inside a call can take its next step.  A thread holds two locks
\* only in create (NEXT_ENGINE_ID, then ENGINES), and a thread that waits
\* for an engine's own lock holds no lock.
C33_NoDeadlock ==
    /\ (~ ffi.aborted /\ \E t \in Threads : InCall(t))
          => \E t \in Threads : InCall(t) /\ ENABLED Proceed(t)
    /\ \A t \in Threads :
          LocksHeld(t) >= 2
             => /\ Me(t).pc = "create_insert"
                /\ ffi.locks.NEXT_ENGINE_ID = t
                /\ ffi.locks.ENGINES = t
                /\ EnginesHeld(t) = {}
    /\ \A t \in Threads :
          Me(t).pc \in {"load_lock_engine", "execute_lock_engine"}
             => LocksHeld(t) = 0

\* C33 witness: one thread is in create holding both global locks while the
\* other waits for ENGINES at the start of a load.
C33_Witness ==
    \E t, u \in Threads :
        /\ Me(t).pc = "create_insert"
        /\ LocksHeld(t) = 2
        /\ Me(u).pc = "load_lock_engines"
        /\ ~ ENABLED Proceed(u)

\* thread t takes a step out of the statement labelled pc
StepsFrom(t, pc) == Me(t).pc = pc /\ ffi'.threads[t] # ffi.threads[t]

\* C34: every create returns a handle that no earlier or concurrent create
\* returned, and a handle is never in the table again once a destroy of it
\* has returned; so a load or execute that looks up a handle (one create
\* had returned) after its destroy has returned ends with the
\* invalid-handle error and leaves every engine as it was.
C34_HandlesUnique ==
    /\ [][\A t \in Threads :
            /\ StepsFrom(t, "create_return")
                 => /\ Me(t).id \notin ffi.returned
                    /\ ffi'.threads[t].out.handle = Me(t).id
                    /\ \A u \in Threads \ {t} :
                         Me(u).pc \in {"create_lock_engines", "create_insert", "create_return"}
                            => Me(u).id # Me(t).id
            /\ (StepsFrom(t, "load_lookup") \/ StepsFrom(t, "execute_lookup"))
                  /\ Me(t).handle \in ffi.destroyed
                 => /\ ffi'.threads[t].pc = "idle"
                    /\ ffi'.threads[t].out.status = "error"
                    /\ ffi'.threads[t].out.error = <<"Invalid engine handle">>
                    /\ ffi'.heap = ffi.heap]_vars
    /\ [](ffi.destroyed \cap DOMAIN ffi.ENGINES = {})

\* C34 witness: after two creates, a call on a destroyed handle has come
\* back with the invalid-handle error while the other engine is live.
C34_Witness ==
    \E t \in Threads :
        /\ Me(t).pc = "idle"
        /\ Me(t).out.call \in {"load", "execute"}
        /\ Me(t).out.handle \in ffi.destroyed
        /\ Me(t).out.status = "error"
        /\ Me(t).out.error = <<"Invalid engine handle">>
        /\ Cardinality(ffi.returned) = 2
        /\ DOMAIN ffi.ENGINES # {}

\* the statements at which a load or execute call holds the Arc it cloned
HoldsArc ==
    {"load_parse", "load_lock_engine", "load_validate", "load_insert", "load_return",
     "execute_lock_engine", "execute_get", "execute_run", "execute_return"}

\* the threads that hold a reference to allocation a, and the handles under
\* which ENGINES holds one
Holders(a) ==
    {t \in Threads : /\ Me(t).engine_arc = a
                     /\ Me(t).pc \in HoldsArc \cup {"create_lock_id", "create_take_id",
                                                    "create_lock_engines", "create_insert"}}

Entries(a) == {h \in DOMAIN ffi.ENGINES : ffi.ENGINES[h] = a}

\* C35: a load or execute that has looked its handle up runs to its end on
\* the engine it found, even when a destroy of the handle runs meanwhile:
\* the engine is there at every statement of the call and is released only
\* when neither ENGINES nor a call in flight refers to it; the load lands
\* in that engine's table, the execution runs that engine's graph, and the
\* call returns the engine's own answer, never the invalid-handle error.
C35_InFlightCompletes ==
    /\ [][\A t \in Threads :
            Me(t).engine_arc \in DOMAIN ffi.heap =>
              LET a == Me(t).engine_arc
                  engine == ffi.heap[a]
              IN
              /\ StepsFrom(t, "load_insert")
                   => ffi'.heap[a].graphs =
                        load_graph(engine.blocks, engine.graphs, Me(t).parsed,
                                   Me(t).first_bad).graphs
              /\ (StepsFrom(t, "execute_run") /\ ffi'.threads[t].pc = "execute_return")
                   => \E iter \in IterOrders(engine.graphs, Me(t).graph_id) :
                        ffi'.threads[t].result =
                          execute_graph(engine.blocks, engine.graphs, Me(t).graph_id, iter).result
              /\ (StepsFrom(t, "load_return") \/ StepsFrom(t, "execute_return"))
                   => /\ ffi'.threads[t].out.status = "ok" <=> Me(t).result.ok
                      /\ ~ Me(t).result.ok =>
                           ffi'.threads[t].out.error # <<"Invalid engine handle">>]_vars
    /\ [](\A t \in Threads :
            Me(t).pc \in HoldsArc => Me(t).engine_arc \in DOMAIN ffi.heap)
    /\ [](\A a \in DOMAIN ffi.heap :
            /\ ffi.heap[a].strong = Cardinality(Holders(a)) + Cardinality(Entries(a))
            /\ ffi.heap[a].strong >= 1)

\* C35 witness: a load is about to return success on a handle whose destroy
\* has already returned; the call's Arc is the last reference to the engine.
C35_Witness ==
    \E t \in Threads :
        /\ Me(t).pc = "load_return"
        /\ Me(t).result.ok
        /\ Me(t).handle \in ffi.destroyed
        /\ Me(t).handle \notin DOMAIN ffi.ENGINES
        /\ ffi.heap[Me(t).engine_arc].strong = 1
        /\ ffi.heap[Me(t).engine_arc].graphs # EmptyMap

\* the statements a call runs under its engine's mutex
UnderEngineLock == {"load_validate", "load_insert", "execute_get", "execute_run"}

\* the threads that are inside load_graph or execute_graph on engine a
Inside(a) == {t \in Threads : Me(t).engine_arc = a /\ Me(t).pc \in UnderEngineLock}

\* C36: load and execute calls on one handle are serialized by the engine's
\* mutex: at most one thread is inside load_graph or execute_graph of an
\* engine, and it holds the mutex; the table an execution found is the
\* table it runs on, and while a thread is inside, no step of another
\* thread changes that engine's tables.
C36_Serialized ==
    /\ [](\A a \in DOMAIN ffi.heap :
            /\ Cardinality(Inside(a)) <= 1
            /\ \A t \in Inside(a) : ffi.heap[a].owner = t)
    /\ [](\A t \in Threads :
            (Me(t).pc = "execute_run" /\ Me(t).engine_arc \in DOMAIN ffi.heap)
               => ffi.heap[Me(t).engine_arc].graphs = Me(t).seen)
    /\ [][\A t \in Threads :
            ( /\ Me(t).pc \in UnderEngineLock
              /\ ffi'.threads[t] = ffi.threads[t]
              /\ Me(t).engine_arc \in DOMAIN ffi.heap
              /\ Me(t).engine_arc \in DOMAIN ffi'.heap )
               => /\ ffi'.heap[Me(t).engine_arc].graphs = ffi.heap[Me(t).engine_arc].graphs
                  /\ ffi'.heap[Me(t).engine_arc].blocks = ffi.heap[Me(t).engine_arc].blocks]_vars

\* C36 witness: an execution is running a loaded graph while a load of
\* another graph on the same handle waits for the engine's mutex.
C36_Witness ==
    \E t, u \in Threads :
        /\ Me(t).pc = "execute_run"
        /\ Me(t).graph_id \in DOMAIN Me(t).seen
        /\ Me(u).pc = "load_lock_engine"
        /\ Me(u).engine_arc = Me(t).engine_arc
        /\ Me(u).parsed # Me(t).seen[Me(t).graph_id]
        /\ UnregisteredNodes(ffi.heap[Me(u).engine_arc].blocks, Me(u).parsed) = {}
        /\ ~ ENABLED LoadLockEngine(u)

====
